---- MODULE Spec2Model ----
(***************************************************************************)
(* DPPK (xtaci/dppk): key generation, encryption, decryption and message   *)
(* recovery over GF(p), modelled from dppk.go (src/unnamed/part_007).      *)
(*                                                                         *)
(* Scaling.  A *big.Int is an Int of TLC, so every field must stay below   *)
(* 2^15 for the products of the code to fit.  A byte of the source is      *)
(* therefore a digit of base ByteBase (its low two bits) instead of base   *)
(* 256, and the 4-byte marker 5F 37 59 DF is the four digits 3 3 1 3.      *)
(* Everything else (big-endian SetBytes, unpadded Bytes, the comparison    *)
(* with the prime, the loops) is as in the source.                         *)
(***************************************************************************)
EXTENDS Integers, Sequences, FiniteSets, TLC

VARIABLES defaultPrime, gen, priv, enc, sqrtPick, dec, dm, probe, th, go

vars == <<defaultPrime, gen, priv, enc, sqrtPick, dec, dm, probe, th, go>>

\* a nil pointer to a struct, or a result not produced yet
NULL == [nil |-> TRUE]
\* a nil *big.Int (the numbers of the model are never negative, except a
\* parsed prime literal, which is never compared with it)
NilInt == 0 - 1
\* a nil error
NoErr == "nil"

(***************************************************************************)
(* Constants of the package                                                *)
(***************************************************************************)
ByteBase == 4

\* const DefaultPrime, a hexadecimal literal (scaled: 0x13d5 = 5077, prime)
DefaultPrime == <<"0", "x", "1", "3", "d", "5">>

ERR_MSG_ORDER == "order must be at least 5"
ERR_MSG_NULL_ENCRYPT == "encrypted values cannot be null"
ERR_MSG_DATA_EXCEEDED == "the secret to encrypt is not in the GF(p)"
ERR_MSG_VU_PUBLICKEY == "VU in public key is not equal"

\* const secretMarker = "\x5f\x37\x59\xdf", each byte reduced to a digit
secretMarker == <<95 % ByteBase, 55 % ByteBase, 89 % ByteBase, 223 % ByteBase>>

errInvalidPrime == "Invalid Prime"
errNoQuadraticResidue == "ciphertext is not a quadratic residue"
errSingularQuadratic == "no modular inverse for quadratic coefficient"
errInvalidSecretFormat == "invalid secret encoding"
\* the error of a failing rand.Reader
errRandom == "rand.Reader failed"
\* the panic of the runtime when a field of a nil pointer is read
errNilDereference == "panic: invalid memory address or nil pointer dereference"

(***************************************************************************)
(* math/big as the package uses it                                         *)
(***************************************************************************)
Front(s) == SubSeq(s, 1, Len(s) - 1)

\* new(big.Int).SetBytes(b): the big-endian value of b
RECURSIVE SetBytes(_)
SetBytes(b) ==
    IF b = <<>> THEN 0 ELSE SetBytes(Front(b)) * ByteBase + b[Len(b)]

\* x.Bytes(): the big-endian digits of x with no leading zero
RECURSIVE Bytes(_)
Bytes(x) ==
    IF x = 0 THEN <<>> ELSE Append(Bytes(x \div ByteBase), x % ByteBase)

\* the value of one digit character, -1 when it is none
DigitVal(ch) ==
    CASE ch = "0" -> 0 [] ch = "1" -> 1 [] ch = "2" -> 2 [] ch = "3" -> 3
      [] ch = "4" -> 4 [] ch = "5" -> 5 [] ch = "6" -> 6 [] ch = "7" -> 7
      [] ch = "8" -> 8 [] ch = "9" -> 9
      [] ch \in {"a", "A"} -> 10 [] ch \in {"b", "B"} -> 11
      [] ch \in {"c", "C"} -> 12 [] ch \in {"d", "D"} -> 13
      [] ch \in {"e", "E"} -> 14 [] ch \in {"f", "F"} -> 15
      [] OTHER -> -1

RECURSIVE DigitsValue(_, _)
DigitsValue(ds, base) ==
    IF ds = <<>> THEN 0
    ELSE DigitsValue(Front(ds), base) * base + DigitVal(ds[Len(ds)])

\* big.NewInt(0).SetString(str, 0): [ok, val]; base 0 reads the base from the
\* prefix (0x, 0b, 0o, a leading 0 for octal, otherwise decimal)
SetString(str) ==
    LET neg == Len(str) > 0 /\ str[1] = "-"
        signed == Len(str) > 0 /\ str[1] \in {"-", "+"}
        body == IF signed THEN Tail(str) ELSE str
        pre == IF Len(body) >= 2 /\ body[1] = "0" THEN body[2] ELSE ""
        base == CASE pre \in {"x", "X"} -> 16
                  [] pre \in {"b", "B"} -> 2
                  [] pre \in {"o", "O"} -> 8
                  [] pre # "" -> 8
                  [] OTHER -> 10
        digits == CASE pre \in {"x", "X", "b", "B", "o", "O"} -> SubSeq(body, 3, Len(body))
                    [] pre # "" -> Tail(body)
                    [] OTHER -> body
        ok == /\ digits # <<>>
              /\ \A i \in 1..Len(digits) :
                    DigitVal(digits[i]) >= 0 /\ DigitVal(digits[i]) < base
        mag == DigitsValue(digits, base)
    IN  IF ok THEN [ok |-> TRUE, val |-> IF neg THEN 0 - mag ELSE mag]
        ELSE [ok |-> FALSE, val |-> NilInt]

(***************************************************************************)
(* Key generation                                                          *)
(***************************************************************************)
\* the samples of rand.Int(rand.Reader, prime) the model draws from: the four
\* quadratic coefficients, and the coefficients of the base polynomial (one
\* value where the keys are then put to use, three where only keys are made)
CoefVals(prime) == {r \in {0, 1, 2, prime - 1} : r >= 0 /\ r < prime}
BnVals(prime) == {prime - 1}
MoreBnVals == {0, 1}

\* the orders asked for: 4 is the largest order that is refused, and an int
\* may be 0 or negative
MaxOrder == 6
Orders == 5..MaxOrder
MinOrder == 0 - 1
AllOrders == MinOrder..MaxOrder
\* the literals handed to GenerateKeyWithPrime
PrimeLiterals == {<<"9", "9", "1">>}
\* also literals that are no positive integer: the empty string, text, "0",
\* "-5", and a hexadecimal literal of 991
AnyPrimeLiterals ==
    PrimeLiterals \cup {<<>>, <<"p", "r", "i", "m", "e">>, <<"0">>,
                        <<"-", "5">>, <<"0", "x", "3", "d", "f">>}
WidePrimeLiterals == {<<"9", "7", "7">>, <<"9", "9", "1">>}
\* primes up to the integer of the marker (247 with four digits to the
\* byte), and the first prime above it
MarkerPrimeLiterals ==
    {<<"1", "3">>, <<"2", "4", "1">>, <<"2", "4", "7">>, <<"2", "5", "1">>}
\* a prime with fewer than four residues, next to one with enough of them
TinyPrimeLiterals == {<<"3">>, <<"9", "9", "1">>}

GenIdle == [pc |-> "idle", order |-> 0, prime |-> NilInt,
            a0 |-> NilInt, a1 |-> NilInt, b0 |-> NilInt, b1 |-> NilInt,
            Bn |-> <<>>, err |-> NoErr]

\* each coefficient compared with the one drawn right before it only
CoefficientsClashAdjacent(a0, a1, b0, b1) ==
    a0 = a1 \/ a1 = b0 \/ b0 = b1

\* five of the six comparisons: a1 is never compared with b1
CoefficientsClashFive(a0, a1, b0, b1) ==
    a0 = a1 \/ a0 = b0 \/ a0 = b1 \/ a1 = b0 \/ b0 = b1

\* the six comparisons after the four draws
CoefficientsClash(a0, a1, b0, b1) ==
    a0 = a1 \/ a0 = b0 \/ a0 = b1 \/ a1 = b0 \/ a1 = b1 \/ b0 = b1

\* the iteration with the two coefficients of the quadratic exchanged
VietaStepExchanged(vec, i, c0, c1, bni, prime) ==
    LET v1 == [vec EXCEPT ![i + 1] = (@ + c1 * bni) % prime]
        v2 == [v1 EXCEPT ![i + 2] = (@ + c0 * bni) % prime]
    IN  [v2 EXCEPT ![i + 3] = (@ + bni) % prime]

\* one iteration of the loop over i for one vector: vec[i] += c0*Bn[i],
\* vec[i+1] += c1*Bn[i], vec[i+2] += Bn[i], each followed by Mod
VietaStep(vec, i, c0, c1, bni, prime) ==
    LET v1 == [vec EXCEPT ![i + 1] = (@ + c0 * bni) % prime]
        v2 == [v1 EXCEPT ![i + 2] = (@ + c1 * bni) % prime]
    IN  [v2 EXCEPT ![i + 3] = (@ + bni) % prime]

\* the loop stopping at i < order: the leading 1 of Bn never multiplied in
RECURSIVE VietaLoopWithoutLeading(_, _, _, _, _, _)
VietaLoopWithoutLeading(vec, i, c0, c1, Bn, prime) ==
    IF i >= Len(Bn) - 1 THEN vec
    ELSE VietaLoopWithoutLeading(VietaStep(vec, i, c0, c1, Bn[i + 1], prime),
                                 i + 1, c0, c1, Bn, prime)

\* the loop for i := 0; i < order+1; i++ (Bn already has its leading 1)
RECURSIVE VietaLoop(_, _, _, _, _, _)
VietaLoop(vec, i, c0, c1, Bn, prime) ==
    IF i >= Len(Bn) THEN vec
    ELSE VietaLoop(VietaStep(vec, i, c0, c1, Bn[i + 1], prime),
                   i + 1, c0, c1, Bn, prime)

\* vecU[0 : order+2]: the constant term published too
PublishedSliceWithConstant(vec, order) == SubSeq(vec, 1, order + 2)

\* vecU[1 : order+2]
PublishedSlice(vec, order) == SubSeq(vec, 2, order + 2)

\* the tail of generateKey once the coefficients are drawn
BuildKey(order, prime, a0, a1, b0, b1, drawn) ==
    LET Bn == Append(drawn, 1)
        zero == [i \in 1..(order + 3) |-> 0]
        vecU == VietaLoop(zero, 0, a0, a1, Bn, prime)
        vecV == VietaLoop(zero, 0, b0, b1, Bn, prime)
    IN  [S0 |-> Bn[1], A0 |-> a0, A1 |-> a1, B0 |-> b0, B1 |-> b1,
         PublicKey |-> [Prime |-> prime,
                        VectorU |-> PublishedSlice(vecU, order),
                        VectorV |-> PublishedSlice(vecV, order)]]

\* generateKey that lets the order 4 through
generateKeyEntryBelowFour(order, prime) ==
    IF order < 4
    THEN [GenIdle EXCEPT !.pc = "done", !.order = order, !.prime = prime,
                         !.err = ERR_MSG_ORDER]
    ELSE [GenIdle EXCEPT !.pc = "a0", !.order = order, !.prime = prime]

\* func generateKey, up to the RETRY label
generateKeyEntry(order, prime) ==
    IF order < 5
    THEN [GenIdle EXCEPT !.pc = "done", !.order = order, !.prime = prime,
                         !.err = ERR_MSG_ORDER]
    ELSE [GenIdle EXCEPT !.pc = "a0", !.order = order, !.prime = prime]

Rest == <<enc, sqrtPick, dec, dm, probe, th, go>>

GenerateKey(order) ==
    /\ gen.pc = "idle"
    /\ gen' = generateKeyEntry(order, defaultPrime)
    /\ UNCHANGED <<defaultPrime, priv, Rest>>

GenerateKeyWithPrime(order, strPrime) ==
    /\ gen.pc = "idle"
    /\ LET parsed == SetString(strPrime)
       IN  gen' = IF ~parsed.ok
                  THEN [GenIdle EXCEPT !.pc = "done", !.order = order,
                                       !.err = errInvalidPrime]
                  ELSE generateKeyEntry(order, parsed.val)
    /\ UNCHANGED <<defaultPrime, priv, Rest>>

\* one of the four draws a0, a1, b0, b1; after b1 the distinctness test
\* either jumps back to RETRY or goes on to the base polynomial
DrawCoefficient ==
    /\ gen.pc \in {"a0", "a1", "b0", "b1"}
    /\ gen.prime > 0
    /\ \E r \in CoefVals(gen.prime) :
       gen' = CASE gen.pc = "a0" -> [gen EXCEPT !.a0 = r, !.pc = "a1"]
                [] gen.pc = "a1" -> [gen EXCEPT !.a1 = r, !.pc = "b0"]
                [] gen.pc = "b0" -> [gen EXCEPT !.b0 = r, !.pc = "b1"]
                [] gen.pc = "b1" ->
                     IF CoefficientsClash(gen.a0, gen.a1, gen.b0, r)
                     THEN [gen EXCEPT !.a0 = NilInt, !.a1 = NilInt, !.b0 = NilInt,
                                      !.pc = "a0"]
                     ELSE [gen EXCEPT !.b1 = r, !.pc = "Bn"]
    /\ UNCHANGED <<defaultPrime, priv, Rest>>

\* one draw of the loop filling Bn, from BnVals and the samples in more; the
\* last one runs on to the return
DrawBn(more) ==
    /\ gen.pc = "Bn"
    /\ \E r \in BnVals(gen.prime) \cup more :
       LET drawn == Append(gen.Bn, r)
       IN  IF Len(drawn) < gen.order
           THEN /\ gen' = [gen EXCEPT !.Bn = drawn]
                /\ priv' = priv
           ELSE /\ gen' = [gen EXCEPT !.Bn = Append(drawn, 1), !.pc = "done"]
                /\ priv' = BuildKey(gen.order, gen.prime, gen.a0, gen.a1,
                                    gen.b0, gen.b1, drawn)
    /\ UNCHANGED <<defaultPrime, Rest>>

\* the draw at the label pc that keeps the coefficients drawn in this round
\* pairwise distinct
DrawDistinct(pc) ==
    /\ gen.pc = pc
    /\ DrawCoefficient
    /\ CASE pc = "a1" -> gen'.a1 # gen.a0
         [] pc = "b0" -> gen.a0 # gen.a1 /\ gen'.b0 \notin {gen.a0, gen.a1}
         [] pc = "b1" -> gen'.pc = "Bn"
         [] OTHER -> FALSE

\* the error of rand.Int noted, and the draw made again
RandFailRetried ==
    /\ gen.pc \in {"a0", "a1", "b0", "b1", "Bn"}
    /\ gen.prime > 0
    /\ gen' = [gen EXCEPT !.err = errRandom]
    /\ UNCHANGED <<defaultPrime, priv, Rest>>

\* rand.Int returns an error: generateKey returns (nil, err)
RandFail ==
    /\ gen.pc \in {"a0", "a1", "b0", "b1", "Bn"}
    /\ gen.prime > 0
    /\ gen' = [gen EXCEPT !.pc = "done", !.err = errRandom]
    /\ UNCHANGED <<defaultPrime, priv, Rest>>

\* rand.Int(rand.Reader, prime) with prime <= 0 panics ("crypto/rand:
\* argument to Int is <= 0"): the first draw ends the program
RandPanic ==
    /\ gen.pc = "a0"
    /\ gen.prime <= 0
    /\ gen' = [gen EXCEPT !.pc = "panic"]
    /\ UNCHANGED <<defaultPrime, priv, Rest>>

(***************************************************************************)
(* Public key: Equal, Order                                                *)
(***************************************************************************)
\* Equal without the loop over VectorV
EqualWithoutVectorV(pub, other) ==
    IF pub = NULL \/ other = NULL THEN FALSE
    ELSE IF (pub.Prime = NilInt) # (other.Prime = NilInt) THEN FALSE
    ELSE IF pub.Prime # NilInt /\ pub.Prime # other.Prime THEN FALSE
    ELSE IF Len(pub.VectorU) # Len(other.VectorU) THEN FALSE
    ELSE IF Len(pub.VectorV) # Len(other.VectorV) THEN FALSE
    ELSE IF \E i \in 1..Len(pub.VectorU) : pub.VectorU[i] # other.VectorU[i]
         THEN FALSE
    ELSE TRUE

\* func (pub *PublicKey) Equal(other *PublicKey) bool, check by check
Equal(pub, other) ==
    IF pub = NULL \/ other = NULL THEN FALSE
    ELSE IF (pub.Prime = NilInt) # (other.Prime = NilInt) THEN FALSE
    ELSE IF pub.Prime # NilInt /\ pub.Prime # other.Prime THEN FALSE
    ELSE IF Len(pub.VectorU) # Len(other.VectorU) THEN FALSE
    ELSE IF Len(pub.VectorV) # Len(other.VectorV) THEN FALSE
    ELSE IF \E i \in 1..Len(pub.VectorU) : pub.VectorU[i] # other.VectorU[i]
         THEN FALSE
    ELSE IF \E i \in 1..Len(pub.VectorV) : pub.VectorV[i] # other.VectorV[i]
         THEN FALSE
    ELSE TRUE

\* func (pub *PublicKey) Order() int
Order(pub) == Len(pub.VectorU) - 1

(***************************************************************************)
(* Encryption                                                              *)
(***************************************************************************)
\* the marker put after the message
encodeSecretAppended(msg) == msg \o secretMarker

\* the message with no marker before it
encodeSecretPlain(msg) == msg

\* func encodeSecret: the marker, then the message
encodeSecret(msg) == secretMarker \o msg

\* the iteration with the sums Ps and Qs left unreduced
EncryptLoopBodyUnreduced(st, ui, vi, secret, prime) ==
    LET UiSi == (st.Si * ui) % prime
        ViSi == (st.Si * vi) % prime
    IN  [Ps |-> st.Ps + UiSi,
         Qs |-> st.Qs + ViSi,
         Si |-> (st.Si * secret) % prime]

\* one iteration of the loop over vecUExt: st = [Ps, Qs, Si]
EncryptLoopBody(st, ui, vi, secret, prime) ==
    LET UiSi == (st.Si * ui) % prime
        ViSi == (st.Si * vi) % prime
    IN  [Ps |-> (st.Ps + UiSi) % prime,
         Qs |-> (st.Qs + ViSi) % prime,
         Si |-> (st.Si * secret) % prime]

RECURSIVE EncryptLoop(_, _, _, _, _, _)
EncryptLoop(st, i, vecUExt, vecVExt, secret, prime) ==
    IF i > Len(vecUExt) THEN st
    ELSE EncryptLoop(EncryptLoopBody(st, vecUExt[i], vecVExt[i], secret, prime),
                     i + 1, vecUExt, vecVExt, secret, prime)

\* secret.Cmp(prime) > 0: the prime itself let through
ExceedsFieldStrictly(secret, prime) == secret > prime

\* secret.Cmp(prime) >= 0
ExceedsField(secret, prime) == secret >= prime

\* the checks of encrypt without the loop that looks for nil elements
encryptChecksNoNilTest(pub, secret, prime) ==
    IF ExceedsField(secret, prime) THEN ERR_MSG_DATA_EXCEEDED
    ELSE IF Len(pub.VectorU) # Len(pub.VectorV) THEN ERR_MSG_VU_PUBLICKEY
    ELSE NoErr

\* the checks of encrypt before its loop: the error, or nil
encryptChecks(pub, secret, prime) ==
    IF ExceedsField(secret, prime) THEN ERR_MSG_DATA_EXCEEDED
    ELSE IF Len(pub.VectorU) # Len(pub.VectorV) THEN ERR_MSG_VU_PUBLICKEY
    ELSE IF \E i \in 1..Len(pub.VectorU) :
                pub.VectorU[i] = NilInt \/ pub.VectorV[i] = NilInt
    THEN ERR_MSG_VU_PUBLICKEY
    ELSE NoErr

\* encrypt with Si starting at 1: the entry i multiplied by s^i
encryptFromPowerZero(pub, msg, prime) ==
    LET secret == SetBytes(encodeSecret(msg))
    IN  IF encryptChecks(pub, secret, prime) # NoErr
        THEN [kem |-> NULL, err |-> encryptChecks(pub, secret, prime)]
        ELSE LET vecUExt == Append(pub.VectorU, 1)
                 vecVExt == Append(pub.VectorV, 1)
                 st == EncryptLoop([Ps |-> 0, Qs |-> 0, Si |-> 1], 1,
                                   vecUExt, vecVExt, secret, prime)
             IN  [kem |-> [Ps |-> st.Ps, Qs |-> st.Qs], err |-> NoErr]

\* func encrypt(pub, msg, prime): [kem, err]
encrypt(pub, msg, prime) ==
    LET secret == SetBytes(encodeSecret(msg))
    IN  IF encryptChecks(pub, secret, prime) # NoErr
        THEN [kem |-> NULL, err |-> encryptChecks(pub, secret, prime)]
        ELSE LET vecUExt == Append(pub.VectorU, 1)
                 vecVExt == Append(pub.VectorV, 1)
                 st == EncryptLoop([Ps |-> 0, Qs |-> 0, Si |-> secret], 1,
                                   vecUExt, vecVExt, secret, prime)
             IN  [kem |-> [Ps |-> st.Ps, Qs |-> st.Qs], err |-> NoErr]

\* func Encrypt(pub, msg)
Encrypt(pub, msg) == encrypt(pub, msg, pub.Prime)

(***************************************************************************)
(* Decryption                                                              *)
(***************************************************************************)
\* x^e mod m by repeated squaring
RECURSIVE ModExp(_, _, _)
ModExp(x, e, m) ==
    IF e = 0 THEN 1 % m
    ELSE LET h == ModExp(x, e \div 2, m)
             sq == (h * h) % m
         IN  IF e % 2 = 1 THEN (sq * (x % m)) % m ELSE sq

\* the odd part q and the exponent s of n = q * 2^s
RECURSIVE OddPart(_, _)
OddPart(n, s) ==
    IF n % 2 = 1 THEN [q |-> n, s |-> s] ELSE OddPart(n \div 2, s + 1)

\* the least z >= from that is no square modulo the odd prime p
RECURSIVE LeastNonResidue(_, _)
LeastNonResidue(from, p) ==
    IF ModExp(from, (p - 1) \div 2, p) = p - 1 THEN from
    ELSE LeastNonResidue(from + 1, p)

\* the least i >= from with t^(2^i) = 1 modulo p
RECURSIVE LeastOrder(_, _, _)
LeastOrder(t, i, p) ==
    IF t = 1 THEN i ELSE LeastOrder((t * t) % p, i + 1, p)

\* the loop of Tonelli and Shanks
RECURSIVE TonelliLoop(_, _, _, _, _)
TonelliLoop(m, c, t, r, p) ==
    IF t = 1 THEN r
    ELSE LET i == LeastOrder(t, 0, p)
             b == ModExp(c, 2 ^ (m - i - 1), p)
             bb == (b * b) % p
         IN  TonelliLoop(i, bb, (t * bb) % p, (r * b) % p, p)

\* a square root of the non-zero square x modulo the odd prime p
SomeRoot(x, p) ==
    LET f == OddPart(p - 1, 0)
        z == LeastNonResidue(2, p)
    IN  TonelliLoop(f.s, ModExp(z, f.q, p), ModExp(x, f.q, p),
                    ModExp(x, (f.q + 1) \div 2, p), p)

\* new(big.Int).ModSqrt(x, p) for an odd prime p: nil when x is no square
\* (Jacobi symbol -1), 0 for x = 0, otherwise one of the two square roots;
\* which one the library returns is not part of its contract, so pick chooses
ModSqrt(x, p, pick) ==
    IF x % p = 0 THEN 0
    ELSE IF ModExp(x, (p - 1) \div 2, p) # 1 THEN NilInt
    ELSE LET r == SomeRoot(x % p, p)
             lo == IF r <= p - r THEN r ELSE p - r
         IN  IF pick = "low" THEN lo ELSE p - lo

\* the extended Euclidean algorithm: [g, x] with a*x = g modulo b0
RECURSIVE ExtGcd(_, _, _, _)
ExtGcd(a, b, x0, x1) ==
    IF b = 0 THEN [g |-> a, x |-> x0]
    ELSE ExtGcd(b, a % b, x1, x0 - (a \div b) * x1)

\* new(big.Int).ModInverse(g, n): nil when g and n are not coprime, otherwise
\* the inverse in [0, n)
ModInverse(g, n) ==
    LET e == ExtGcd(g % n, n, 1, 0)
    IN  IF e.g # 1 THEN NilInt ELSE e.x % n

\* the quadratic from Ps and Qs as received, the constant terms S0*A0 and
\* S0*B0 not added back
QuadraticWithoutConstant(key, kem) ==
    LET prime == key.PublicKey.Prime
        polyP == kem.Ps % prime
        polyQ == kem.Qs % prime
        revPs == prime - polyP
        a1Qs == polyQ * key.A1
        b1Ps == (polyP * key.B1) % prime
        revb1Ps == prime - b1Ps
        a0Qs == polyQ * key.A0
        b0Ps == (polyP * key.B0) % prime
        revb0Ps == prime - b0Ps
    IN  [polyP |-> polyP, polyQ |-> polyQ,
         a |-> (polyQ + revPs) % prime,
         b |-> (a1Qs + revb1Ps) % prime,
         c |-> (a0Qs + revb0Ps) % prime]

\* the quadratic with S0*A0 added back to Qs too, in the place of S0*B0
QuadraticOneConstant(key, kem) ==
    LET prime == key.PublicKey.Prime
        s0a0 == (key.S0 * key.A0) % prime
        polyP == (kem.Ps + s0a0) % prime
        polyQ == (kem.Qs + s0a0) % prime
        revPs == prime - polyP
        a1Qs == polyQ * key.A1
        b1Ps == (polyP * key.B1) % prime
        revb1Ps == prime - b1Ps
        a0Qs == polyQ * key.A0
        b0Ps == (polyP * key.B0) % prime
        revb0Ps == prime - b0Ps
    IN  [polyP |-> polyP, polyQ |-> polyQ,
         a |-> (polyQ + revPs) % prime,
         b |-> (a1Qs + revb1Ps) % prime,
         c |-> (a0Qs + revb0Ps) % prime]

\* the coefficients of the quadratic, as Decrypt computes them
Quadratic(key, kem) ==
    LET prime == key.PublicKey.Prime
        s0a0 == (key.S0 * key.A0) % prime
        s0b0 == (key.S0 * key.B0) % prime
        polyP == (kem.Ps + s0a0) % prime
        polyQ == (kem.Qs + s0b0) % prime
        revPs == prime - polyP
        a1Qs == polyQ * key.A1
        b1Ps == (polyP * key.B1) % prime
        revb1Ps == prime - b1Ps
        a0Qs == polyQ * key.A0
        b0Ps == (polyP * key.B0) % prime
        revb0Ps == prime - b0Ps
    IN  [polyP |-> polyP, polyQ |-> polyQ,
         a |-> (polyQ + revPs) % prime,
         b |-> (a1Qs + revb1Ps) % prime,
         c |-> (a0Qs + revb0Ps) % prime]

\* the discriminant with b^2 + 4ac in the place of b^2 - 4ac
DiscriminantPlus(q, prime) ==
    LET bsquared == (q.b * q.b) % prime
        fourac == (4 * (q.a * q.c)) % prime
    IN  (bsquared + fourac) % prime

\* the discriminant with 2ac in the place of 4ac
DiscriminantTwoAC(q, prime) ==
    LET bsquared == (q.b * q.b) % prime
        twoac == (2 * (q.a * q.c)) % prime
        invTwoac == prime - twoac
    IN  (bsquared + invTwoac) % prime

\* the discriminant b^2 - 4ac, as Decrypt computes it
Discriminant(q, prime) ==
    LET bsquared == (q.b * q.b) % prime
        fourac == (4 * (q.a * q.c)) % prime
        invFourac == prime - fourac
    IN  (bsquared + invFourac) % prime

\* Decrypt that does not test whether ModInverse found an inverse
DecryptUntestedInverse(key, kem, pick) ==
    IF kem = NULL
    THEN [x1 |-> NilInt, x2 |-> NilInt, err |-> ERR_MSG_NULL_ENCRYPT]
    ELSE IF kem.Ps = NilInt \/ kem.Qs = NilInt
    THEN [x1 |-> NilInt, x2 |-> NilInt, err |-> ERR_MSG_NULL_ENCRYPT]
    ELSE IF key = NULL
    THEN [x1 |-> NilInt, x2 |-> NilInt, err |-> errNilDereference]
    ELSE
    LET prime == key.PublicKey.Prime
        q == Quadratic(key, kem)
        squared == Discriminant(q, prime)
        root == ModSqrt(squared, prime, pick)
    IN  IF root = NilInt
        THEN [x1 |-> NilInt, x2 |-> NilInt, err |-> errNoQuadraticResidue]
        ELSE
        LET doubleA == (2 * q.a) % prime
            inv2a == ModInverse(doubleA, prime)
            negb == prime - q.b
            revRoot == prime - root
        IN  [x1 |-> (((negb + revRoot) % prime) * inv2a) % prime,
             x2 |-> (((negb + root) % prime) * inv2a) % prime,
             err |-> NoErr]

\* Decrypt with -b - r in both roots
DecryptOneRootTwice(key, kem, pick) ==
    IF kem = NULL
    THEN [x1 |-> NilInt, x2 |-> NilInt, err |-> ERR_MSG_NULL_ENCRYPT]
    ELSE IF kem.Ps = NilInt \/ kem.Qs = NilInt
    THEN [x1 |-> NilInt, x2 |-> NilInt, err |-> ERR_MSG_NULL_ENCRYPT]
    ELSE
    LET prime == key.PublicKey.Prime
        q == Quadratic(key, kem)
        squared == Discriminant(q, prime)
        root == ModSqrt(squared, prime, pick)
    IN  IF root = NilInt
        THEN [x1 |-> NilInt, x2 |-> NilInt, err |-> errNoQuadraticResidue]
        ELSE
        LET doubleA == (2 * q.a) % prime
            inv2a == ModInverse(doubleA, prime)
        IN  IF inv2a = NilInt
            THEN [x1 |-> NilInt, x2 |-> NilInt, err |-> errSingularQuadratic]
            ELSE
            LET negb == prime - q.b
                revRoot == prime - root
            IN  [x1 |-> (((negb + revRoot) % prime) * inv2a) % prime,
                 x2 |-> (((negb + revRoot) % prime) * inv2a) % prime,
                 err |-> NoErr]

\* Decrypt that reads the prime of the key before it looks at the ciphertext
DecryptKeyFirst(key, kem, pick) ==
    IF key = NULL
    THEN [x1 |-> NilInt, x2 |-> NilInt, err |-> errNilDereference]
    ELSE IF kem = NULL
    THEN [x1 |-> NilInt, x2 |-> NilInt, err |-> ERR_MSG_NULL_ENCRYPT]
    ELSE IF kem.Ps = NilInt \/ kem.Qs = NilInt
    THEN [x1 |-> NilInt, x2 |-> NilInt, err |-> ERR_MSG_NULL_ENCRYPT]
    ELSE
    LET prime == key.PublicKey.Prime
        q == Quadratic(key, kem)
        squared == Discriminant(q, prime)
        root == ModSqrt(squared, prime, pick)
    IN  IF root = NilInt
        THEN [x1 |-> NilInt, x2 |-> NilInt, err |-> errNoQuadraticResidue]
        ELSE
        LET doubleA == (2 * q.a) % prime
            inv2a == ModInverse(doubleA, prime)
        IN  IF inv2a = NilInt
            THEN [x1 |-> NilInt, x2 |-> NilInt, err |-> errSingularQuadratic]
            ELSE
            LET negb == prime - q.b
                revRoot == prime - root
            IN  [x1 |-> (((negb + revRoot) % prime) * inv2a) % prime,
                 x2 |-> (((negb + root) % prime) * inv2a) % prime,
                 err |-> NoErr]

\* func (priv *PrivateKey) Decrypt(kem): [x1, x2, err]; the receiver is read
\* first at priv.PublicKey.Prime, after the tests of the ciphertext
Decrypt(key, kem, pick) ==
    IF kem = NULL
    THEN [x1 |-> NilInt, x2 |-> NilInt, err |-> ERR_MSG_NULL_ENCRYPT]
    ELSE IF kem.Ps = NilInt \/ kem.Qs = NilInt
    THEN [x1 |-> NilInt, x2 |-> NilInt, err |-> ERR_MSG_NULL_ENCRYPT]
    ELSE IF key = NULL
    THEN [x1 |-> NilInt, x2 |-> NilInt, err |-> errNilDereference]
    ELSE
    LET prime == key.PublicKey.Prime
        q == Quadratic(key, kem)
        squared == Discriminant(q, prime)
        root == ModSqrt(squared, prime, pick)
    IN  IF root = NilInt
        THEN [x1 |-> NilInt, x2 |-> NilInt, err |-> errNoQuadraticResidue]
        ELSE
        LET doubleA == (2 * q.a) % prime
            inv2a == ModInverse(doubleA, prime)
        IN  IF inv2a = NilInt
            THEN [x1 |-> NilInt, x2 |-> NilInt, err |-> errSingularQuadratic]
            ELSE
            LET negb == prime - q.b
                revRoot == prime - root
            IN  [x1 |-> (((negb + revRoot) % prime) * inv2a) % prime,
                 x2 |-> (((negb + root) % prime) * inv2a) % prime,
                 err |-> NoErr]

\* RecoverMessage that tests the length alone, not the marker
RecoverMessageLengthOnly(candidate) ==
    IF candidate = NilInt THEN [msg |-> <<>>, err |-> errInvalidSecretFormat]
    ELSE LET raw == Bytes(candidate)
         IN  IF Len(raw) < Len(secretMarker)
             THEN [msg |-> <<>>, err |-> errInvalidSecretFormat]
             ELSE [msg |-> SubSeq(raw, Len(secretMarker) + 1, Len(raw)),
                   err |-> NoErr]

\* func RecoverMessage(candidate): [msg, err]
RecoverMessage(candidate) ==
    IF candidate = NilInt THEN [msg |-> <<>>, err |-> errInvalidSecretFormat]
    ELSE LET raw == Bytes(candidate)
         IN  IF Len(raw) < Len(secretMarker)
                  \/ SubSeq(raw, 1, Len(secretMarker)) # secretMarker
             THEN [msg |-> <<>>, err |-> errInvalidSecretFormat]
             ELSE [msg |-> SubSeq(raw, Len(secretMarker) + 1, Len(raw)),
                   err |-> NoErr]

\* DecryptMessage that tries x2 before x1
DecryptMessageSecondRootFirst(key, kem, pick) ==
    LET d == Decrypt(key, kem, pick)
    IN  IF d.err # NoErr THEN [msg |-> <<>>, err |-> d.err]
        ELSE IF RecoverMessage(d.x2).err = NoErr
        THEN [msg |-> RecoverMessage(d.x2).msg, err |-> NoErr]
        ELSE IF RecoverMessage(d.x1).err = NoErr
        THEN [msg |-> RecoverMessage(d.x1).msg, err |-> NoErr]
        ELSE [msg |-> <<>>, err |-> errInvalidSecretFormat]

\* DecryptMessage that gives up when x1 fails the marker check
DecryptMessageFirstRootOnly(key, kem, pick) ==
    LET d == Decrypt(key, kem, pick)
    IN  IF d.err # NoErr THEN [msg |-> <<>>, err |-> d.err]
        ELSE IF RecoverMessage(d.x1).err = NoErr
        THEN [msg |-> RecoverMessage(d.x1).msg, err |-> NoErr]
        ELSE [msg |-> <<>>, err |-> errInvalidSecretFormat]

\* func (priv *PrivateKey) DecryptMessage(kem): [msg, err]
DecryptMessage(key, kem, pick) ==
    LET d == Decrypt(key, kem, pick)
    IN  IF d.err # NoErr THEN [msg |-> <<>>, err |-> d.err]
        ELSE IF RecoverMessage(d.x1).err = NoErr
        THEN [msg |-> RecoverMessage(d.x1).msg, err |-> NoErr]
        ELSE IF RecoverMessage(d.x2).err = NoErr
        THEN [msg |-> RecoverMessage(d.x2).msg, err |-> NoErr]
        ELSE [msg |-> <<>>, err |-> errInvalidSecretFormat]

(***************************************************************************)
(* The calls of a client holding the generated key                         *)
(***************************************************************************)
MaxMsgLen == 2

RECURSIVE SeqsUpTo(_, _)
SeqsUpTo(S, n) ==
    IF n = 0 THEN {<<>>}
    ELSE LET shorter == SeqsUpTo(S, n - 1)
         IN  shorter \cup {Append(m, d) : m \in shorter, d \in S}

\* the plaintexts offered to Encrypt
Messages == SeqsUpTo(0..(ByteBase - 1), MaxMsgLen)

\* kem, err := Encrypt(&priv.PublicKey, msg)
EncryptCall(msg) ==
    /\ priv # NULL /\ enc = NULL /\ probe = NULL
    /\ LET r == Encrypt(priv.PublicKey, msg)
       IN  enc' = [msg |-> msg, kem |-> r.kem, err |-> r.err]
    /\ UNCHANGED <<defaultPrime, gen, priv, sqrtPick, dec, dm, probe, th, go>>

\* the square root ModSqrt returns for this ciphertext, fixed at its first use
PickRoot(pick) ==
    /\ pick \in {"low", "high"}
    /\ sqrtPick \in {"unset", pick}
    /\ sqrtPick' = pick

\* x1, x2, err := priv.Decrypt(kem), kem being what Encrypt returned (nil
\* when it failed)
DecryptCall ==
    /\ enc # NULL /\ dec = NULL
    /\ \E pick \in {"low", "high"} :
          /\ PickRoot(pick)
          /\ dec' = Decrypt(priv, enc.kem, pick)
    /\ UNCHANGED <<defaultPrime, gen, priv, enc, dm, probe, th, go>>

\* message, err := priv.DecryptMessage(kem)
DecryptMessageCall ==
    /\ enc # NULL /\ dm = NULL
    /\ \E pick \in {"low", "high"} :
          /\ PickRoot(pick)
          /\ dm' = DecryptMessage(priv, enc.kem, pick)
    /\ UNCHANGED <<defaultPrime, gen, priv, enc, dec, probe, th, go>>

\* the public keys a client compares: the generated one and its neighbours
Variants(pub) ==
    {pub, NULL,
     [pub EXCEPT !.Prime = NilInt],
     [pub EXCEPT !.Prime = pub.Prime + 2],
     [pub EXCEPT !.VectorU = Front(pub.VectorU)],
     [pub EXCEPT !.VectorV = Front(pub.VectorV)],
     [pub EXCEPT !.VectorU[1] = (@ + 1) % pub.Prime],
     [pub EXCEPT !.VectorV[Len(pub.VectorV)] = (@ + 1) % pub.Prime],
     [pub EXCEPT !.VectorU = pub.VectorV, !.VectorV = pub.VectorU]}

\* a.Equal(b) and b.Equal(a)
EqualCall ==
    /\ priv # NULL /\ enc = NULL /\ probe = NULL
    /\ \E a \in Variants(priv.PublicKey), b \in Variants(priv.PublicKey) :
          probe' = [op |-> "Equal", a |-> a, b |-> b,
                    res |-> Equal(a, b), rev |-> Equal(b, a)]
    /\ UNCHANGED <<defaultPrime, gen, priv, enc, sqrtPick, dec, dm, th, go>>

\* priv.Public().Order()
OrderCall ==
    /\ priv # NULL /\ enc = NULL /\ probe = NULL
    /\ probe' = [op |-> "Order", res |-> Order(priv.PublicKey)]
    /\ UNCHANGED <<defaultPrime, gen, priv, enc, sqrtPick, dec, dm, th, go>>

\* public keys a client may have received damaged: a vector one entry short,
\* an entry missing at the front or at the end
Malformed(pub) ==
    {[pub EXCEPT !.VectorU = Front(pub.VectorU)],
     [pub EXCEPT !.VectorV = Front(pub.VectorV)],
     [pub EXCEPT !.VectorU[1] = NilInt],
     [pub EXCEPT !.VectorU[Len(pub.VectorU)] = NilInt],
     [pub EXCEPT !.VectorV[Len(pub.VectorV)] = NilInt]}

\* Encrypt(pub, msg) under such a key
EncryptMalformedCall ==
    /\ priv # NULL /\ enc = NULL /\ probe = NULL
    /\ \E pub \in Malformed(priv.PublicKey), msg \in Messages :
          probe' = [op |-> "Encrypt", pub |-> pub, msg |-> msg,
                    res |-> Encrypt(pub, msg)]
    /\ UNCHANGED <<defaultPrime, gen, priv, enc, sqrtPick, dec, dm, th, go>>

\* public keys whose entries are not reduced modulo the prime: every entry of
\* VectorU a prime too large, the first entry of VectorV negative, or both
Unreduced(pub) ==
    LET p == pub.Prime
        raised == [i \in 1..Len(pub.VectorU) |-> pub.VectorU[i] + p]
        lowered == [pub.VectorV EXCEPT ![1] = @ - 2 * p]
    IN  {[pub EXCEPT !.VectorU = raised],
         [pub EXCEPT !.VectorV = lowered],
         [pub EXCEPT !.VectorU = raised, !.VectorV = lowered]}

\* Encrypt(pub, msg) under such a key
EncryptUnreducedCall ==
    /\ priv # NULL /\ enc = NULL /\ probe = NULL
    /\ \E pub \in Unreduced(priv.PublicKey), msg \in Messages :
          probe' = [op |-> "EncryptUnreduced", pub |-> pub, msg |-> msg,
                    res |-> Encrypt(pub, msg)]
    /\ UNCHANGED <<defaultPrime, gen, priv, enc, sqrtPick, dec, dm, th, go>>

\* the components of the ciphertexts a client receives from elsewhere
MaxForged == 11
ForgedVals == 0..MaxForged

\* a nil KEM, and the KEMs with a nil component
NullKems ==
    {NULL, [Ps |-> NilInt, Qs |-> 0], [Ps |-> 0, Qs |-> NilInt],
     [Ps |-> NilInt, Qs |-> NilInt]}

\* the ciphertexts handed to Decrypt that Encrypt need not have produced
ForgedKems == NullKems \cup [Ps : ForgedVals, Qs : ForgedVals]

\* priv.Decrypt(kem) and priv.DecryptMessage(kem) of a received ciphertext
DecryptForgedCall ==
    /\ priv # NULL /\ enc = NULL /\ probe = NULL
    /\ \E kem \in ForgedKems, pick \in {"low", "high"} :
          /\ PickRoot(pick)
          /\ probe' = [op |-> "Decrypt", kem |-> kem,
                       dec |-> Decrypt(priv, kem, pick),
                       dm |-> DecryptMessage(priv, kem, pick)]
    /\ UNCHANGED <<defaultPrime, gen, priv, enc, dec, dm, th, go>>

\* Decrypt and DecryptMessage called on a nil *PrivateKey
DecryptNilKeyCall ==
    /\ priv # NULL /\ enc = NULL /\ probe = NULL
    /\ \E kem \in NullKems \cup {[Ps |-> 0, Qs |-> 0]} :
          probe' = [op |-> "DecryptNilKey", kem |-> kem,
                    dec |-> Decrypt(NULL, kem, sqrtPick),
                    dm |-> DecryptMessage(NULL, kem, sqrtPick)]
    /\ UNCHANGED <<defaultPrime, gen, priv, enc, sqrtPick, dec, dm, th, go>>

\* the candidates handed to RecoverMessage: nil, and every integer up to
\* MaxCandidate (the marker itself and the marker with up to two bytes after
\* it lie below)
MaxCandidate == 4095
Candidates == {NilInt} \cup 0..MaxCandidate

\* RecoverMessage(candidate), of any integer
RecoverMessageCall ==
    /\ probe = NULL /\ gen.pc = "idle"
    /\ \E candidate \in Candidates :
          probe' = [op |-> "RecoverMessage", candidate |-> candidate,
                    res |-> RecoverMessage(candidate)]
    /\ UNCHANGED <<defaultPrime, gen, priv, enc, sqrtPick, dec, dm, th, go>>

(***************************************************************************)
(* The calls on a heap of big.Int objects: every method of big.Int writes   *)
(* its receiver, and a variable or a field holds a pointer to an object     *)
(***************************************************************************)
\* the object behind a field or a local variable, and behind a slice element
Field(name) == <<name, 0>>
Entry(name, i) == <<name, i>>

\* z.op(x, y) on the objects z, x, y
Ins(op, z, x, y) == [op |-> op, z |-> z, x |-> x, y |-> y]
\* z = big.NewInt(k)
NewInt(z, k) == [op |-> "NewInt", z |-> z, x |-> <<"int", k>>, y |-> z]

\* one call of a method of big.Int: the receiver is overwritten
Exec(heap, ins) ==
    [heap EXCEPT ![ins.z] =
        CASE ins.op = "Set" -> heap[ins.x]
          [] ins.op = "NewInt" -> ins.x[2]
          [] ins.op = "Add" -> heap[ins.x] + heap[ins.y]
          [] ins.op = "Sub" -> heap[ins.x] - heap[ins.y]
          [] ins.op = "Mul" -> heap[ins.x] * heap[ins.y]
          [] ins.op = "Mod" -> heap[ins.x] % heap[ins.y]]

\* the instructions of prog from the i-th on, one after the other (the test
\* has the receiver computed before the next instruction is looked at)
RECURSIVE RunFrom(_, _, _)
RunFrom(heap, prog, i) ==
    IF i > Len(prog) THEN heap
    ELSE LET next == Exec(heap, prog[i])
         IN  IF next[prog[i].z] \in Int THEN RunFrom(next, prog, i + 1)
             ELSE next

Run(heap, prog) == RunFrom(heap, prog, 1)

\* the objects handed to Decrypt: the fields of the key and of the ciphertext
DecryptInputs ==
    {"priv.S0", "priv.A0", "priv.A1", "priv.B0", "priv.B1", "priv.Prime",
     "kem.Ps", "kem.Qs"}
\* the objects Decrypt allocates, named by the variable that holds them
DecryptLocals ==
    {"polyP", "polyQ", "s0a0", "s0b0", "a", "revPs", "b", "a1Qs", "b1Ps",
     "revb1Ps", "c", "a0Qs", "b0Ps", "revb0Ps", "bsquared", "four", "ac",
     "fourac", "invFourac", "squared", "root", "two", "doubleA", "inv2a",
     "negb", "revRoot", "x1", "x2"}

\* polyP := Ps in the place of polyP := new(big.Int).Set(Ps)
DecryptBindingShared(v) ==
    CASE v \in {"Ps", "polyP"} -> Field("kem.Ps")
      [] v = "Qs" -> Field("kem.Qs")
      [] v = "prime" -> Field("priv.Prime")
      [] OTHER -> Field(v)

\* the object each name of Decrypt stands for: Ps := kem.Ps, Qs := kem.Qs and
\* prime := priv.Prime copy a pointer, every other local is a new object
DecryptBinding(v) ==
    CASE v = "Ps" -> Field("kem.Ps")
      [] v = "Qs" -> Field("kem.Qs")
      [] v = "prime" -> Field("priv.Prime")
      [] OTHER -> Field(v)

\* z.op(x, y) by the names of Decrypt
DIns(op, z, x, y) ==
    Ins(op, DecryptBinding(z), DecryptBinding(x), DecryptBinding(y))

\* Decrypt from polyP := ... to squared.Mod(squared, prime)
DecryptToDiscriminant ==
    << DIns("Set", "polyP", "Ps", "Ps"),
       DIns("Set", "polyQ", "Qs", "Qs"),
       DIns("Mul", "s0a0", "priv.S0", "priv.A0"),
       DIns("Mod", "s0a0", "s0a0", "prime"),
       DIns("Mul", "s0b0", "priv.S0", "priv.B0"),
       DIns("Mod", "s0b0", "s0b0", "prime"),
       DIns("Add", "polyP", "polyP", "s0a0"),
       DIns("Mod", "polyP", "polyP", "prime"),
       DIns("Add", "polyQ", "polyQ", "s0b0"),
       DIns("Mod", "polyQ", "polyQ", "prime"),
       DIns("Sub", "revPs", "prime", "polyP"),
       DIns("Add", "a", "polyQ", "revPs"),
       DIns("Mod", "a", "a", "priv.Prime"),
       DIns("Mul", "a1Qs", "polyQ", "priv.A1"),
       DIns("Mul", "b1Ps", "polyP", "priv.B1"),
       DIns("Mod", "b1Ps", "b1Ps", "priv.Prime"),
       DIns("Sub", "revb1Ps", "prime", "b1Ps"),
       DIns("Add", "b", "a1Qs", "revb1Ps"),
       DIns("Mod", "b", "b", "priv.Prime"),
       DIns("Mul", "a0Qs", "polyQ", "priv.A0"),
       DIns("Mul", "b0Ps", "polyP", "priv.B0"),
       DIns("Mod", "b0Ps", "b0Ps", "priv.Prime"),
       DIns("Sub", "revb0Ps", "prime", "b0Ps"),
       DIns("Add", "c", "a0Qs", "revb0Ps"),
       DIns("Mod", "c", "c", "priv.Prime"),
       DIns("Mul", "bsquared", "b", "b"),
       DIns("Mod", "bsquared", "bsquared", "prime"),
       NewInt(DecryptBinding("four"), 4),
       DIns("Mul", "ac", "a", "c"),
       DIns("Mul", "fourac", "four", "ac"),
       DIns("Mod", "fourac", "fourac", "prime"),
       DIns("Sub", "invFourac", "prime", "fourac"),
       DIns("Add", "squared", "bsquared", "invFourac"),
       DIns("Mod", "squared", "squared", "prime") >>

\* doubleA := 2*a mod prime
DecryptToDoubleA ==
    << NewInt(DecryptBinding("two"), 2),
       DIns("Mul", "doubleA", "two", "a"),
       DIns("Mod", "doubleA", "doubleA", "prime") >>

\* the two roots
DecryptToRoots ==
    << DIns("Sub", "negb", "prime", "b"),
       DIns("Sub", "revRoot", "prime", "root"),
       DIns("Add", "x1", "negb", "revRoot"),
       DIns("Mod", "x1", "x1", "prime"),
       DIns("Mul", "x1", "x1", "inv2a"),
       DIns("Mod", "x1", "x1", "prime"),
       DIns("Add", "x2", "negb", "root"),
       DIns("Mod", "x2", "x2", "prime"),
       DIns("Mul", "x2", "x2", "inv2a"),
       DIns("Mod", "x2", "x2", "prime") >>

\* the heap at the call: the inputs, and the objects to be allocated at 0
DecryptHeap(key, kem) ==
    [o \in {Field(v) : v \in DecryptInputs \cup DecryptLocals} |->
        CASE o = Field("priv.S0") -> key.S0
          [] o = Field("priv.A0") -> key.A0
          [] o = Field("priv.A1") -> key.A1
          [] o = Field("priv.B0") -> key.B0
          [] o = Field("priv.B1") -> key.B1
          [] o = Field("priv.Prime") -> key.PublicKey.Prime
          [] o = Field("kem.Ps") -> kem.Ps
          [] o = Field("kem.Qs") -> kem.Qs
          [] OTHER -> 0]

\* the key and the ciphertext as the heap holds them
KeyOnHeap(key, heap) ==
    [key EXCEPT !.S0 = heap[Field("priv.S0")],
                !.A0 = heap[Field("priv.A0")],
                !.A1 = heap[Field("priv.A1")],
                !.B0 = heap[Field("priv.B0")],
                !.B1 = heap[Field("priv.B1")],
                !.PublicKey.Prime = heap[Field("priv.Prime")]]
KemOnHeap(heap) == [Ps |-> heap[Field("kem.Ps")], Qs |-> heap[Field("kem.Qs")]]

\* what Decrypt returns, and what it leaves of its inputs
Outcome(res, key, kem) == [res |-> res, key |-> key, kem |-> kem]
NoRoots(err) == [x1 |-> NilInt, x2 |-> NilInt, err |-> err]

\* func (priv *PrivateKey) Decrypt(kem), instruction by instruction
DecryptOnHeap(key, kem, pick) ==
    IF kem = NULL \/ key = NULL THEN Outcome(Decrypt(key, kem, pick), key, kem)
    ELSE IF kem.Ps = NilInt \/ kem.Qs = NilInt
    THEN Outcome(NoRoots(ERR_MSG_NULL_ENCRYPT), key, kem)
    ELSE
    LET h1 == Run(DecryptHeap(key, kem), DecryptToDiscriminant)
        root == ModSqrt(h1[DecryptBinding("squared")],
                        h1[DecryptBinding("prime")], pick)
    IN  IF root = NilInt
        THEN Outcome(NoRoots(errNoQuadraticResidue),
                     KeyOnHeap(key, h1), KemOnHeap(h1))
        ELSE
        LET h2 == Run([h1 EXCEPT ![DecryptBinding("root")] = root],
                      DecryptToDoubleA)
            inv2a == ModInverse(h2[DecryptBinding("doubleA")],
                                h2[DecryptBinding("prime")])
        IN  IF inv2a = NilInt
            THEN Outcome(NoRoots(errSingularQuadratic),
                         KeyOnHeap(key, h2), KemOnHeap(h2))
            ELSE
            LET h3 == Run([h2 EXCEPT ![DecryptBinding("inv2a")] = inv2a],
                          DecryptToRoots)
            IN  Outcome([x1 |-> h3[DecryptBinding("x1")],
                         x2 |-> h3[DecryptBinding("x2")], err |-> NoErr],
                        KeyOnHeap(key, h3), KemOnHeap(h3))

\* func (priv *PrivateKey) DecryptMessage(kem): RecoverMessage reads its
\* candidate with Bytes and writes a new slice
DecryptMessageOnHeap(key, kem, pick) ==
    CHOOSE out \in
        {Outcome(IF r.res.err # NoErr THEN [msg |-> <<>>, err |-> r.res.err]
                 ELSE IF RecoverMessage(r.res.x1).err = NoErr
                 THEN [msg |-> RecoverMessage(r.res.x1).msg, err |-> NoErr]
                 ELSE IF RecoverMessage(r.res.x2).err = NoErr
                 THEN [msg |-> RecoverMessage(r.res.x2).msg, err |-> NoErr]
                 ELSE [msg |-> <<>>, err |-> errInvalidSecretFormat],
                 r.key, r.kem) : r \in {DecryptOnHeap(key, kem, pick)}} : TRUE

\* the object each name of encrypt stands for: copy() puts the pointers of
\* pub.VectorU into vecUExt, whose last element is a new object
encryptBinding(v, i, n) ==
    CASE v = "prime" -> Field("pub.Prime")
      [] v = "vecUExt" -> IF i <= n THEN Entry("pub.VectorU", i)
                          ELSE Entry("vecUExt", i)
      [] v = "vecVExt" -> IF i <= n THEN Entry("pub.VectorV", i)
                          ELSE Entry("vecVExt", i)
      [] OTHER -> Field(v)

\* z.op(x, y) by the names of encrypt, in the iteration i
EIns(op, z, x, y, i, n) ==
    Ins(op, encryptBinding(z, i, n), encryptBinding(x, i, n),
        encryptBinding(y, i, n))

\* the locals of encrypt before its loop
encryptToLoop(n) ==
    << NewInt(encryptBinding("vecUExt", n + 1, n), 1),
       NewInt(encryptBinding("vecVExt", n + 1, n), 1),
       NewInt(Field("Ps"), 0),
       NewInt(Field("Qs"), 0),
       EIns("Set", "Si", "secret", "secret", 0, n) >>

\* the body of the loop for the index i
encryptIteration(i, n) ==
    << EIns("Mul", "UiSi", "Si", "vecUExt", i, n),
       EIns("Mod", "UiSi", "UiSi", "prime", i, n),
       EIns("Add", "Ps", "Ps", "UiSi", i, n),
       EIns("Mod", "Ps", "Ps", "prime", i, n),
       EIns("Mul", "ViSi", "Si", "vecVExt", i, n),
       EIns("Mod", "ViSi", "ViSi", "prime", i, n),
       EIns("Add", "Qs", "Qs", "ViSi", i, n),
       EIns("Mod", "Qs", "Qs", "prime", i, n),
       EIns("Mul", "Si", "Si", "secret", i, n),
       EIns("Mod", "Si", "Si", "prime", i, n) >>

\* for i := range vecUExt
RECURSIVE encryptIterations(_, _)
encryptIterations(i, n) ==
    IF i > n + 1 THEN <<>>
    ELSE encryptIteration(i, n) \o encryptIterations(i + 1, n)

\* the heap at the call of encrypt
encryptHeap(pub, secret) ==
    LET n == Len(pub.VectorU)
        objects == {Field(v) : v \in {"pub.Prime", "secret", "Ps", "Qs", "Si",
                                      "UiSi", "ViSi"}}
                   \cup {Entry(v, i) : v \in {"pub.VectorU", "pub.VectorV"},
                                       i \in 1..n}
                   \cup {Entry("vecUExt", n + 1), Entry("vecVExt", n + 1)}
    IN  [o \in objects |->
            CASE o = Field("pub.Prime") -> pub.Prime
              [] o = Field("secret") -> secret
              [] o[1] = "pub.VectorU" -> pub.VectorU[o[2]]
              [] o[1] = "pub.VectorV" -> pub.VectorV[o[2]]
              [] OTHER -> 0]

\* the public key as the heap holds it
PubOnHeap(pub, heap) ==
    [Prime |-> heap[Field("pub.Prime")],
     VectorU |-> [i \in 1..Len(pub.VectorU) |-> heap[Entry("pub.VectorU", i)]],
     VectorV |-> [i \in 1..Len(pub.VectorV) |-> heap[Entry("pub.VectorV", i)]]]

\* func Encrypt(pub, msg), instruction by instruction: [kem, err], and the
\* public key it leaves
EncryptOnHeap(pub, msg) ==
    LET secret == SetBytes(encodeSecret(msg))
        err == encryptChecks(pub, secret, pub.Prime)
    IN  IF err # NoErr THEN [kem |-> NULL, err |-> err, pub |-> pub]
        ELSE LET n == Len(pub.VectorU)
                 h == Run(encryptHeap(pub, secret),
                          encryptToLoop(n) \o encryptIterations(1, n))
             IN  [kem |-> [Ps |-> h[Field("Ps")], Qs |-> h[Field("Qs")]],
                  err |-> NoErr, pub |-> PubOnHeap(pub, h)]

\* the key of GenerateKey holds the pointer defaultPrime itself; no literal of
\* the model denotes the default prime
HoldsDefaultPrime(key) == key.PublicKey.Prime = defaultPrime

\* kem, err := Encrypt(&priv.PublicKey, msg)
EncryptHeapCall(msg) ==
    /\ priv # NULL /\ enc = NULL /\ probe = NULL
    /\ \E r \in {EncryptOnHeap(priv.PublicKey, msg)} :
           /\ enc' = [msg |-> msg, kem |-> r.kem, err |-> r.err]
           /\ priv' = [priv EXCEPT !.PublicKey = r.pub]
           /\ defaultPrime' = IF HoldsDefaultPrime(priv) THEN r.pub.Prime
                              ELSE defaultPrime
    /\ UNCHANGED <<gen, sqrtPick, dec, dm, probe, th, go>>

\* the ciphertexts received from elsewhere: the nil ones, and small components
MaxReceived == 3
ReceivedKems == NullKems \cup [Ps : 0..MaxReceived, Qs : 0..MaxReceived]

\* a ciphertext received from elsewhere
ReceiveCall ==
    /\ priv # NULL /\ enc = NULL /\ probe = NULL
    /\ \E kem \in ReceivedKems :
          enc' = [msg |-> <<>>, kem |-> kem, err |-> NoErr]
    /\ UNCHANGED <<defaultPrime, gen, priv, sqrtPick, dec, dm, probe, th, go>>

\* x1, x2, err := priv.Decrypt(kem), any number of times
DecryptHeapCall ==
    /\ enc # NULL
    /\ \E pick \in {"low", "high"} :
          /\ PickRoot(pick)
          /\ \E r \in {DecryptOnHeap(priv, enc.kem, pick)} :
                 /\ dec' = r.res
                 /\ priv' = r.key
                 /\ enc' = [enc EXCEPT !.kem = r.kem]
                 /\ defaultPrime' = IF HoldsDefaultPrime(priv)
                                    THEN r.key.PublicKey.Prime
                                    ELSE defaultPrime
    /\ UNCHANGED <<gen, dm, probe, th, go>>

\* message, err := priv.DecryptMessage(kem), any number of times
DecryptMessageHeapCall ==
    /\ enc # NULL
    /\ \E pick \in {"low", "high"} :
          /\ PickRoot(pick)
          /\ \E r \in {DecryptMessageOnHeap(priv, enc.kem, pick)} :
                 /\ dm' = r.res
                 /\ priv' = r.key
                 /\ enc' = [enc EXCEPT !.kem = r.kem]
                 /\ defaultPrime' = IF HoldsDefaultPrime(priv)
                                    THEN r.key.PublicKey.Prime
                                    ELSE defaultPrime
    /\ UNCHANGED <<gen, dec, probe, th, go>>

(***************************************************************************)
(* Encrypt, one loop iteration at a time, called by concurrent goroutines   *)
(***************************************************************************)
Callers == {1, 2}
\* the plaintexts the goroutines encrypt; the last one is refused under the
\* prime 991, its encoded integer being 991
ConcMessages == {<<>>, <<1>>, <<3>>}

ThIdle == [pc |-> "idle", msg |-> <<>>, i |-> 0,
           Ps |-> 0, Qs |-> 0, Si |-> 0, kem |-> NULL, err |-> NoErr]

\* Ps, Qs, Si kept in one place for all callers
LocalsShared(t) == [Ps |-> th[1].Ps, Qs |-> th[1].Qs, Si |-> th[1].Si]

\* Ps, Qs, Si: allocated by every call of encrypt for itself
Locals(t) == [Ps |-> th[t].Ps, Qs |-> th[t].Qs, Si |-> th[t].Si]

\* encrypt up to the loop: the checks, then the locals
EncryptBegin(t, msg) ==
    /\ priv # NULL /\ th[t].pc = "idle"
    /\ LET pub == priv.PublicKey
           secret == SetBytes(encodeSecret(msg))
           err == encryptChecks(pub, secret, pub.Prime)
       IN  th' = [th EXCEPT ![t] =
                    IF err # NoErr
                    THEN [ThIdle EXCEPT !.pc = "done", !.msg = msg, !.err = err]
                    ELSE [ThIdle EXCEPT !.pc = "loop", !.msg = msg, !.i = 1,
                                        !.Si = secret]]
    /\ UNCHANGED <<defaultPrime, gen, priv, enc, sqrtPick, dec, dm, probe, go>>

\* one iteration of the loop; the last one runs on to the return
EncryptIterate(t) ==
    /\ th[t].pc = "loop"
    /\ LET pub == priv.PublicKey
           vecUExt == Append(pub.VectorU, 1)
           vecVExt == Append(pub.VectorV, 1)
           i == th[t].i
           st == EncryptLoopBody(Locals(t), vecUExt[i], vecVExt[i],
                                 SetBytes(encodeSecret(th[t].msg)), pub.Prime)
       IN  th' = [th EXCEPT ![t] =
                    IF i < Len(vecUExt)
                    THEN [@ EXCEPT !.i = i + 1, !.Ps = st.Ps, !.Qs = st.Qs,
                                   !.Si = st.Si]
                    ELSE [@ EXCEPT !.pc = "done", !.i = i + 1, !.Ps = st.Ps,
                                   !.Qs = st.Qs, !.Si = st.Si,
                                   !.kem = [Ps |-> st.Ps, Qs |-> st.Qs]]]
    /\ UNCHANGED <<defaultPrime, gen, priv, enc, sqrtPick, dec, dm, probe, go>>

(***************************************************************************)
(* Goroutines that share the key pair and the ciphertext, on one heap; a    *)
(* step of a goroutine is a block of one call                               *)
(***************************************************************************)
\* the objects that exist before the goroutines start
SharedNames == DecryptInputs \cup {"pub.Prime", "pub.VectorU", "pub.VectorV"}
\* the objects a call of encrypt or Decrypt allocates
CallLocals ==
    DecryptLocals \cup {"secret", "Ps", "Qs", "Si", "UiSi", "ViSi"}

\* the locals kept in variables of the package, one set for all goroutines
OwnerPackage(t) == 0

\* the locals of a call belong to the goroutine that makes it
Owner(t) == t

\* the object o of a call made by the goroutine t; &priv.PublicKey is the
\* public key handed to Encrypt, so pub.Prime is priv.Prime
ThreadObject(o, t) ==
    IF o[1] \in SharedNames
    THEN <<0, IF o[1] = "pub.Prime" THEN Field("priv.Prime") ELSE o>>
    ELSE <<Owner(t), o>>

ThreadIns(ins, t) ==
    [op |-> ins.op, z |-> ThreadObject(ins.z, t),
     x |-> IF ins.op = "NewInt" THEN ins.x ELSE ThreadObject(ins.x, t),
     y |-> ThreadObject(ins.y, t)]

ThreadProgram(prog, t) == [k \in 1..Len(prog) |-> ThreadIns(prog[k], t)]

\* the value of a shared object when the goroutines start
SharedValue(key, kem, o) ==
    CASE o[1] = "pub.VectorU" -> key.PublicKey.VectorU[o[2]]
      [] o[1] = "pub.VectorV" -> key.PublicKey.VectorV[o[2]]
      [] OTHER -> DecryptHeap(key, IF kem = NULL
                                   THEN [Ps |-> NilInt, Qs |-> NilInt]
                                   ELSE kem)[o]

\* the heap of the goroutines that use the key pair
UseHeap(key, kem) ==
    LET n == Len(key.PublicKey.VectorU)
        shared == {Field(v) : v \in DecryptInputs}
                  \cup {Entry(v, i) : v \in {"pub.VectorU", "pub.VectorV"},
                                      i \in 1..n}
        locals == {Field(v) : v \in CallLocals}
                  \cup {Entry("vecUExt", n + 1), Entry("vecVExt", n + 1)}
    IN  [o \in {<<0, s>> : s \in shared}
               \cup {ThreadObject(l, t) : l \in locals, t \in Callers} |->
            IF o[1] = 0 /\ o[2] \in shared THEN SharedValue(key, kem, o[2])
            ELSE 0]

\* the public key as the goroutines find it
SharedPub(heap, pub) ==
    [Prime |-> heap[<<0, Field("priv.Prime")>>],
     VectorU |-> [i \in 1..Len(pub.VectorU) |->
                     heap[<<0, Entry("pub.VectorU", i)>>]],
     VectorV |-> [i \in 1..Len(pub.VectorV) |->
                     heap[<<0, Entry("pub.VectorV", i)>>]]]

\* the heap of the goroutines that generate keys: a0, a1, b0, b1 of each
GenerateHeap ==
    [o \in {ThreadObject(Field(v), t) : v \in {"a0", "a1", "b0", "b1"},
                                        t \in Callers} |-> 0]

GoIdle == [op |-> "idle", pc |-> "idle", msg |-> <<>>, order |-> 0, i |-> 0,
           drawn |-> <<>>, bn |-> <<>>, res |-> NULL]

\* no goroutine has been started
Quiet == \A t \in Callers : go.run[t].op = "idle"

\* the plaintexts of the ciphertext the goroutines share; the last one is
\* refused under the prime 991, and the ciphertext is then nil
SharedMessages == {<<>>, <<3>>}

\* the calls a goroutine makes with the key pair
UseCalls ==
    {[op |-> "Encrypt", msg |-> m] : m \in ConcMessages}
    \cup {[op |-> "Decrypt", msg |-> <<>>],
          [op |-> "DecryptMessage", msg |-> <<>>]}

\* go Encrypt(...), go priv.Decrypt(kem), go priv.DecryptMessage(kem)
GoUse ==
    /\ Quiet /\ priv # NULL /\ enc # NULL
    /\ dec = NULL /\ dm = NULL /\ probe = NULL
    /\ \E calls \in [Callers -> UseCalls] :
          go' = [heap |-> UseHeap(priv, enc.kem),
                 run |-> [t \in Callers |->
                            [GoIdle EXCEPT !.op = calls[t].op,
                                           !.msg = calls[t].msg,
                                           !.pc = "begin"]]]
    /\ UNCHANGED <<defaultPrime, gen, priv, enc, sqrtPick, dec, dm, probe, th>>

\* go GenerateKey(order), twice
GoGenerate ==
    /\ Quiet /\ gen.pc = "idle"
    /\ \E orders \in [Callers -> Orders] :
          go' = [heap |-> GenerateHeap,
                 run |-> [t \in Callers |->
                            [GoIdle EXCEPT !.op = "GenerateKey",
                                           !.order = orders[t],
                                           !.pc = "draw"]]]
    /\ UNCHANGED <<defaultPrime, gen, priv, enc, sqrtPick, dec, dm, probe, th>>

\* encrypt: the checks and the locals, then one iteration of its loop, the
\* last one running on to the return
EncryptStep(t) ==
    /\ go.run[t].op = "Encrypt" /\ go.run[t].pc \in {"begin", "loop"}
    /\ LET r == go.run[t]
           pub == SharedPub(go.heap, priv.PublicKey)
           n == Len(pub.VectorU)
           secret == SetBytes(encodeSecret(r.msg))
           err == encryptChecks(pub, secret, pub.Prime)
           begun == Run([go.heap EXCEPT
                            ![ThreadObject(Field("secret"), t)] = secret],
                        ThreadProgram(encryptToLoop(n), t))
           looped == Run(go.heap, ThreadProgram(encryptIteration(r.i, n), t))
       IN  go' =
             IF r.pc = "begin" /\ err # NoErr
             THEN [go EXCEPT !.run[t].pc = "done",
                             !.run[t].res = [kem |-> NULL, err |-> err]]
             ELSE IF r.pc = "begin"
             THEN [heap |-> begun,
                   run |-> [go.run EXCEPT ![t].pc = "loop", ![t].i = 1]]
             ELSE IF r.i <= n
             THEN [heap |-> looped, run |-> [go.run EXCEPT ![t].i = r.i + 1]]
             ELSE [heap |-> looped,
                   run |-> [go.run EXCEPT
                      ![t].pc = "done",
                      ![t].res =
                         [kem |-> [Ps |-> looped[ThreadObject(Field("Ps"), t)],
                                   Qs |-> looped[ThreadObject(Field("Qs"), t)]],
                          err |-> NoErr]]]
    /\ UNCHANGED <<defaultPrime, gen, priv, enc, sqrtPick, dec, dm, probe, th>>

\* the object of a name of Decrypt in the goroutine t
DecryptObject(v, t) == ThreadObject(DecryptBinding(v), t)

\* what Decrypt or DecryptMessage returns with the error err
Failed(op, err) ==
    IF op = "Decrypt" THEN NoRoots(err) ELSE [msg |-> <<>>, err |-> err]

\* Decrypt up to the discriminant; the two roots; the decoding of the roots
\* in DecryptMessage
DecryptStep(t) ==
    /\ go.run[t].op \in {"Decrypt", "DecryptMessage"}
    /\ go.run[t].pc \in {"begin", "roots", "recover"}
    /\ LET r == go.run[t]
           heap == go.heap
       IN  go' =
             CASE r.pc = "begin" ->
                    IF \/ enc.kem = NULL
                       \/ heap[<<0, Field("kem.Ps")>>] = NilInt
                       \/ heap[<<0, Field("kem.Qs")>>] = NilInt
                    THEN [go EXCEPT
                            !.run[t].pc = "done",
                            !.run[t].res = Failed(r.op, ERR_MSG_NULL_ENCRYPT)]
                    ELSE [heap |-> Run(heap, ThreadProgram(
                                                DecryptToDiscriminant, t)),
                          run |-> [go.run EXCEPT ![t].pc = "sqrt"]]
               [] r.pc = "roots" ->
                    LET h == Run(heap, ThreadProgram(DecryptToRoots, t))
                    IN  [heap |-> h,
                         run |-> [go.run EXCEPT ![t] =
                            IF r.op = "Decrypt"
                            THEN [r EXCEPT
                                    !.pc = "done",
                                    !.res = [x1 |-> h[DecryptObject("x1", t)],
                                             x2 |-> h[DecryptObject("x2", t)],
                                             err |-> NoErr]]
                            ELSE [r EXCEPT !.pc = "recover"]]]
               [] r.pc = "recover" ->
                    LET x1 == heap[DecryptObject("x1", t)]
                        x2 == heap[DecryptObject("x2", t)]
                    IN  [go EXCEPT
                           !.run[t].pc = "done",
                           !.run[t].res =
                              IF RecoverMessage(x1).err = NoErr
                              THEN [msg |-> RecoverMessage(x1).msg,
                                    err |-> NoErr]
                              ELSE IF RecoverMessage(x2).err = NoErr
                              THEN [msg |-> RecoverMessage(x2).msg,
                                    err |-> NoErr]
                              ELSE [msg |-> <<>>,
                                    err |-> errInvalidSecretFormat]]
    /\ UNCHANGED <<defaultPrime, gen, priv, enc, sqrtPick, dec, dm, probe, th>>

\* Decrypt from ModSqrt to the test of inv2a
DecryptSqrtStep(t) ==
    /\ go.run[t].op \in {"Decrypt", "DecryptMessage"}
    /\ go.run[t].pc = "sqrt"
    /\ \E pick \in {"low", "high"} :
          /\ PickRoot(pick)
          /\ LET r == go.run[t]
                 heap == go.heap
                 root == ModSqrt(heap[DecryptObject("squared", t)],
                                 heap[DecryptObject("prime", t)], pick)
                 h2 == Run([heap EXCEPT ![DecryptObject("root", t)] = root],
                           ThreadProgram(DecryptToDoubleA, t))
                 inv2a == ModInverse(h2[DecryptObject("doubleA", t)],
                                     h2[DecryptObject("prime", t)])
             IN  go' =
                   IF root = NilInt
                   THEN [go EXCEPT
                           !.run[t].pc = "done",
                           !.run[t].res = Failed(r.op, errNoQuadraticResidue)]
                   ELSE IF inv2a = NilInt
                   THEN [heap |-> h2,
                         run |-> [go.run EXCEPT
                            ![t].pc = "done",
                            ![t].res = Failed(r.op, errSingularQuadratic)]]
                   ELSE [heap |-> [h2 EXCEPT
                                     ![DecryptObject("inv2a", t)] = inv2a],
                         run |-> [go.run EXCEPT ![t].pc = "roots"]]
    /\ UNCHANGED <<defaultPrime, gen, priv, enc, dec, dm, probe, th>>

\* generateKey(order, defaultPrime): one round of the four draws with its
\* test (a round that fails it leaves nothing that is read again), then the
\* base polynomial and the key
GenerateKeyStep(t) ==
    /\ go.run[t].op = "GenerateKey" /\ go.run[t].pc \in {"draw", "Bn"}
    /\ LET r == go.run[t]
           a0 == ThreadObject(Field("a0"), t)
           a1 == ThreadObject(Field("a1"), t)
           b0 == ThreadObject(Field("b0"), t)
           b1 == ThreadObject(Field("b1"), t)
       IN  IF r.pc = "draw"
           THEN \E drawn \in [1..4 -> CoefVals(defaultPrime)] :
                   go' = IF CoefficientsClash(drawn[1], drawn[2],
                                              drawn[3], drawn[4])
                         THEN go
                         ELSE [heap |-> [go.heap EXCEPT ![a0] = drawn[1],
                                                        ![a1] = drawn[2],
                                                        ![b0] = drawn[3],
                                                        ![b1] = drawn[4]],
                               run |-> [go.run EXCEPT ![t].drawn = drawn,
                                                      ![t].pc = "Bn"]]
           ELSE \E bn \in [1..r.order -> BnVals(defaultPrime)] :
                   go' = [go EXCEPT
                            !.run[t].bn = bn,
                            !.run[t].pc = "done",
                            !.run[t].res =
                               [key |-> BuildKey(r.order, defaultPrime,
                                                 go.heap[a0], go.heap[a1],
                                                 go.heap[b0], go.heap[b1], bn),
                                err |-> NoErr]]
    /\ UNCHANGED <<defaultPrime, gen, priv, enc, sqrtPick, dec, dm, probe, th>>

(***************************************************************************)
(* Specification                                                           *)
(***************************************************************************)
Init ==
    /\ defaultPrime = SetString(DefaultPrime).val
    /\ gen = GenIdle
    /\ priv = NULL
    /\ enc = NULL
    /\ sqrtPick = "unset"
    /\ dec = NULL
    /\ dm = NULL
    /\ probe = NULL
    /\ th = [t \in Callers |-> ThIdle]
    /\ go = [heap |-> <<>>, run |-> [t \in Callers |-> GoIdle]]

\* a client that generates a key and uses it
Next ==
    \/ \E order \in Orders : GenerateKey(order)
    \/ \E order \in Orders, strPrime \in PrimeLiterals :
          GenerateKeyWithPrime(order, strPrime)
    \/ DrawCoefficient
    \/ DrawBn({})
    \/ RandFail
    \/ \E msg \in Messages : EncryptCall(msg)
    \/ DecryptCall
    \/ DecryptMessageCall
    \/ EqualCall
    \/ OrderCall

Spec == Init /\ [][Next]_vars

\* a client that also decrypts ciphertexts it has not made
NextCalls ==
    \/ Next
    \/ DecryptForgedCall
    \/ DecryptNilKeyCall
    \/ EncryptMalformedCall
    \/ EncryptUnreducedCall

SpecCalls == Init /\ [][NextCalls]_vars

\* a client that decodes candidates
NextRecover == RecoverMessageCall

SpecRecover == Init /\ [][NextRecover]_vars

\* a client that hands every kind of literal to GenerateKeyWithPrime
NextPrimes ==
    \/ \E order \in Orders, strPrime \in AnyPrimeLiterals :
          GenerateKeyWithPrime(order, strPrime)
    \/ DrawCoefficient
    \/ DrawBn({})
    \/ RandFail
    \/ RandPanic

SpecPrimes == Init /\ [][NextPrimes]_vars

\* a client that generates keys of every order over every prime
NextKeys ==
    \/ \E order \in AllOrders : GenerateKey(order)
    \/ \E order \in AllOrders, strPrime \in WidePrimeLiterals :
          GenerateKeyWithPrime(order, strPrime)
    \/ DrawCoefficient
    \/ DrawBn(MoreBnVals)
    \/ RandFail
    \/ OrderCall

SpecKeys == Init /\ [][NextKeys]_vars

\* a client that generates keys over a prime with three residues too, drawing
\* from a fair random source: every draw happens, and a draw that can keep the
\* coefficients of the round distinct infinitely often does so in the end
NextTermination ==
    \/ \E order \in Orders, strPrime \in TinyPrimeLiterals :
          GenerateKeyWithPrime(order, strPrime)
    \/ DrawCoefficient
    \/ DrawBn({})
    \/ RandFail

SpecTermination ==
    /\ Init /\ [][NextTermination]_vars
    /\ WF_vars(DrawCoefficient \/ DrawBn({}))
    /\ SF_vars(DrawDistinct("a1"))
    /\ SF_vars(DrawDistinct("b0"))
    /\ SF_vars(DrawDistinct("b1"))

\* a client that encrypts under keys over primes around the marker
NextMarker ==
    \/ \E order \in Orders, strPrime \in MarkerPrimeLiterals :
          GenerateKeyWithPrime(order, strPrime)
    \/ DrawCoefficient
    \/ DrawBn({})
    \/ \E msg \in Messages : EncryptCall(msg)
    \/ DecryptMessageCall

SpecMarker == Init /\ [][NextMarker]_vars

\* a client whose calls run on the heap
NextHeap ==
    \/ \E order \in Orders : GenerateKey(order)
    \/ \E order \in Orders, strPrime \in PrimeLiterals :
          GenerateKeyWithPrime(order, strPrime)
    \/ DrawCoefficient
    \/ DrawBn({})
    \/ \E msg \in Messages : EncryptHeapCall(msg)
    \/ ReceiveCall
    \/ DecryptHeapCall
    \/ DecryptMessageHeapCall
    \/ EqualCall
    \/ OrderCall

SpecHeap == Init /\ [][NextHeap]_vars

\* goroutines that use one key pair and one ciphertext, or generate keys
\* over the default prime
NextThreads ==
    \/ Quiet /\ \E order \in Orders : GenerateKey(order)
    \/ Quiet /\ \E order \in Orders, strPrime \in PrimeLiterals :
                   GenerateKeyWithPrime(order, strPrime)
    \/ DrawCoefficient
    \/ DrawBn({})
    \/ Quiet /\ \E msg \in SharedMessages : EncryptCall(msg)
    \/ GoUse
    \/ GoGenerate
    \/ \E t \in Callers : EncryptStep(t)
    \/ \E t \in Callers : DecryptStep(t)
    \/ \E t \in Callers : DecryptSqrtStep(t)
    \/ \E t \in Callers : GenerateKeyStep(t)

SpecThreads == Init /\ [][NextThreads]_vars

\* func TestDPPKSmallPrime
TestOrder == 10
TestPrime == <<"9", "7", "7">>
\* []byte("X"), the byte reduced to a digit
TestSecret == <<88 % ByteBase>>

NextSmallPrime ==
    \/ GenerateKeyWithPrime(TestOrder, TestPrime)
    \/ DrawCoefficient
    \/ DrawBn({})
    \/ EncryptCall(TestSecret)
    \/ DecryptMessageCall
    \/ DecryptCall

SpecSmallPrime == Init /\ [][NextSmallPrime]_vars

\* goroutines that encrypt under one generated key
NextConcurrent ==
    \/ \E order \in Orders : GenerateKey(order)
    \/ \E order \in Orders, strPrime \in PrimeLiterals :
          GenerateKeyWithPrime(order, strPrime)
    \/ DrawCoefficient
    \/ DrawBn({})
    \/ \E t \in Callers, msg \in ConcMessages : EncryptBegin(t, msg)
    \/ \E t \in Callers : EncryptIterate(t)

SpecConcurrent == Init /\ [][NextConcurrent]_vars

(***************************************************************************)
(* Properties                                                              *)
(***************************************************************************)
\* the integer Encrypt encodes msg to
Secret(msg) == SetBytes(encodeSecret(msg))

\* the value at x of the polynomial with the coefficients cs (constant first)
RECURSIVE PolyAt(_, _, _)
PolyAt(cs, x, p) ==
    IF cs = <<>> THEN 0 ELSE (cs[1] + x * PolyAt(Tail(cs), x, p)) % p

\* Encrypt was called under the key's own public key and returned a ciphertext
Honest == priv # NULL /\ enc # NULL /\ enc.kem # NULL

\* some root of d decodes to msg
SomeRootRecovers(d, msg) ==
    \/ RecoverMessage(d.x1) = [msg |-> msg, err |-> NoErr]
    \/ RecoverMessage(d.x2) = [msg |-> msg, err |-> NoErr]

\* Bn(s) * ((A1 - B1) * s + (A0 - B0)) = 0 modulo p: the quadratic of the
\* honest ciphertext of s has no leading coefficient
Degenerate(key, Bn, s) ==
    LET p == key.PublicKey.Prime
        lin == ((key.A1 + p - key.B1) * s + key.A0 + p - key.B0) % p
    IN  (PolyAt(Bn, s, p) * lin) % p = 0

\* C1 as claimed: Decrypt of an honest ciphertext returns no error and one of
\* its roots decodes to the plaintext.
C1_RoundTripAlways ==
    (Honest /\ dec # NULL) =>
        dec.err = NoErr /\ SomeRootRecovers(dec, enc.msg)

\* C1 as amended: Decrypt of an honest ciphertext returns
\* errSingularQuadratic exactly when Bn(s)*((A1-B1)*s + (A0-B0)) = 0 mod p;
\* in every other case it returns no error and one root decodes to msg.
C1_RoundTripOnRoots ==
    (Honest /\ dec # NULL) =>
        IF Degenerate(priv, gen.Bn, Secret(enc.msg))
        THEN dec = [x1 |-> NilInt, x2 |-> NilInt, err |-> errSingularQuadratic]
        ELSE dec.err = NoErr /\ SomeRootRecovers(dec, enc.msg)

\* a two-byte plaintext came back from one of two different roots
C1_Witness ==
    /\ Honest /\ dec # NULL
    /\ dec.err = NoErr /\ dec.x1 # dec.x2
    /\ Len(enc.msg) = 2
    /\ SomeRootRecovers(dec, enc.msg)

\* C2 as claimed: DecryptMessage of an honest ciphertext returns no error
\* and exactly the plaintext.
C2_DecryptMessageAlways ==
    (Honest /\ dm # NULL) => dm = [msg |-> enc.msg, err |-> NoErr]

\* C2 as amended: DecryptMessage of an honest ciphertext returns Decrypt's
\* error when Decrypt fails (errSingularQuadratic); when the first root x1 is
\* not the encoded plaintext and yet carries the marker it returns the bytes
\* of x1, which are not the plaintext; in every other case it returns no
\* error and exactly the plaintext.
C2_DecryptMessage ==
    (Honest /\ dm # NULL) =>
        LET d == Decrypt(priv, enc.kem, sqrtPick)
            s == Secret(enc.msg)
        IN  IF d.err # NoErr
            THEN d.err = errSingularQuadratic
                 /\ dm = [msg |-> <<>>, err |-> errSingularQuadratic]
            ELSE IF d.x1 # s /\ RecoverMessage(d.x1).err = NoErr
            THEN dm = [msg |-> SubSeq(Bytes(d.x1), Len(secretMarker) + 1,
                                      Len(Bytes(d.x1))),
                       err |-> NoErr]
                 /\ dm.msg # enc.msg
            ELSE dm = [msg |-> enc.msg, err |-> NoErr]

\* the plaintext came back from the second root, the first lacking the marker
C2_Witness ==
    /\ Honest /\ dm # NULL /\ dec # NULL
    /\ dec.err = NoErr
    /\ RecoverMessage(dec.x1).err # NoErr
    /\ dec.x2 = Secret(enc.msg)
    /\ Len(enc.msg) = 1
    /\ dm = [msg |-> enc.msg, err |-> NoErr]

\* the plaintext begins with a zero byte
LeadingZero(msg) == Len(msg) > 0 /\ msg[1] = 0

\* C4 as claimed: RecoverMessage of the encoded integer is msg, byte for
\* byte, and so DecryptMessage of the ciphertext of a plaintext with leading
\* zero bytes returns that plaintext.
C4_LeadingZerosAlways ==
    (enc # NULL /\ LeadingZero(enc.msg)) =>
        /\ RecoverMessage(Secret(enc.msg)) = [msg |-> enc.msg, err |-> NoErr]
        /\ (Honest /\ dm # NULL) => dm = [msg |-> enc.msg, err |-> NoErr]

\* C4 as amended: RecoverMessage of the encoded integer is msg, byte for
\* byte, for every msg; DecryptMessage keeps the leading zeros whenever it
\* decodes the root that is the encoded plaintext, which it does unless
\* Decrypt fails or the first root is another integer carrying the marker.
C4_LeadingZeros ==
    enc # NULL =>
        /\ RecoverMessage(Secret(enc.msg)) = [msg |-> enc.msg, err |-> NoErr]
        /\ Len(Bytes(Secret(enc.msg))) = Len(secretMarker) + Len(enc.msg)
        /\ (Honest /\ dm # NULL) =>
              LET d == Decrypt(priv, enc.kem, sqrtPick)
              IN  (d.err = NoErr
                     /\ (d.x1 = Secret(enc.msg)
                           \/ RecoverMessage(d.x1).err # NoErr))
                  => dm = [msg |-> enc.msg, err |-> NoErr]

\* a plaintext of two zero bytes came back whole
C4_Witness ==
    /\ Honest /\ dm # NULL
    /\ enc.msg = <<0, 0>>
    /\ dm = [msg |-> <<0, 0>>, err |-> NoErr]

C7_OrderRecovery ==
    priv # NULL =>
        /\ gen.order >= 5
        /\ Len(priv.PublicKey.VectorU) = gen.order + 1
        /\ Len(priv.PublicKey.VectorV) = gen.order + 1
        /\ (probe # NULL /\ probe.op = "Order") => probe.res = gen.order

\* Order() was called on a key of the largest order
C7_Witness ==
    /\ priv # NULL /\ probe # NULL
    /\ probe.op = "Order" /\ probe.res = MaxOrder

\* the two keys are both present and agree in every field
SameKey(a, b) ==
    /\ a # NULL /\ b # NULL
    /\ a.Prime = b.Prime
    /\ Len(a.VectorU) = Len(b.VectorU) /\ Len(a.VectorV) = Len(b.VectorV)
    /\ \A i \in 1..Len(a.VectorU) : a.VectorU[i] = b.VectorU[i]
    /\ \A i \in 1..Len(a.VectorV) : a.VectorV[i] = b.VectorV[i]

\* C8: Equal(a, b) is true exactly when the primes are equal (or both
\* absent), the vectors are equally long and their entries equal; it is true
\* of a generated key and itself, and Equal(a, b) = Equal(b, a).
C8_Equal ==
    (priv # NULL /\ probe # NULL /\ probe.op = "Equal") =>
        /\ probe.res <=> SameKey(probe.a, probe.b)
        /\ probe.res <=> probe.rev
        /\ (probe.a = priv.PublicKey /\ probe.b = priv.PublicKey) => probe.res

\* two keys that differ in the last entry of VectorV alone were found unequal
C8_Witness ==
    /\ priv # NULL /\ probe # NULL /\ probe.op = "Equal"
    /\ probe.a = priv.PublicKey /\ probe.b # NULL
    /\ probe.b.Prime = probe.a.Prime
    /\ probe.b.VectorU = probe.a.VectorU
    /\ Len(probe.b.VectorV) = Len(probe.a.VectorV)
    /\ ~probe.res /\ ~probe.rev

\* the four values are pairwise distinct
Distinct4(a0, a1, b0, b1) == Cardinality({a0, a1, b0, b1}) = 4

\* C9: the coefficients that leave the sampling loop, and those of every
\* returned key, are pairwise distinct and lie in [0, p); S0 is the constant
\* coefficient of the sampled base polynomial.
C9_Coefficients ==
    /\ gen.pc = "Bn" => Distinct4(gen.a0, gen.a1, gen.b0, gen.b1)
    /\ priv # NULL =>
          /\ Distinct4(priv.A0, priv.A1, priv.B0, priv.B1)
          /\ \A c \in {priv.S0, priv.A0, priv.A1, priv.B0, priv.B1} :
                c >= 0 /\ c < priv.PublicKey.Prime
          /\ <<priv.A0, priv.A1, priv.B0, priv.B1>>
                = <<gen.a0, gen.a1, gen.b0, gen.b1>>
          /\ priv.S0 = gen.Bn[1]

\* a key with a non-zero S0 was returned
C9_Witness ==
    /\ priv # NULL /\ priv.S0 # 0 /\ priv.S0 = gen.Bn[1]
    /\ gen.Bn[2] = 0

\* C10 as claimed: the first published entries are A0*S0 and B0*S0 mod p.
C10_FirstEntryIsConstantTerm ==
    priv # NULL =>
        LET p == priv.PublicKey.Prime
        IN  /\ priv.PublicKey.VectorU[1] = (priv.A0 * priv.S0) % p
            /\ priv.PublicKey.VectorV[1] = (priv.B0 * priv.S0) % p

\* C10 as amended: the first published entries are the coefficients of x^1,
\* VectorU[0] = A0*B[1] + A1*S0 and VectorV[0] = B0*B[1] + B1*S0 mod p; the
\* constant coefficients A0*S0 and B0*S0 are not published.
C10_FirstEntry ==
    priv # NULL =>
        LET p == priv.PublicKey.Prime
        IN  /\ priv.PublicKey.VectorU[1]
                  = (priv.A0 * gen.Bn[2] + priv.A1 * priv.S0) % p
            /\ priv.PublicKey.VectorV[1]
                  = (priv.B0 * gen.Bn[2] + priv.B1 * priv.S0) % p

\* a key whose first entry of VectorU is not A0*S0
C10_Witness ==
    /\ priv # NULL
    /\ priv.S0 # 0 /\ priv.A1 > 1 /\ gen.Bn[2] # 0
    /\ priv.PublicKey.VectorU[1]
          # (priv.A0 * priv.S0) % priv.PublicKey.Prime

\* C3: the run of TestDPPKSmallPrime: Encrypt returns no error,
\* DecryptMessage returns "X" and no error, Decrypt returns no error and one
\* of its roots decodes to "X".
C3_SmallPrimeTest ==
    (gen.order = TestOrder /\ priv # NULL /\ enc # NULL) =>
        /\ enc.err = NoErr /\ enc.kem # NULL
        /\ dm # NULL => dm = [msg |-> TestSecret, err |-> NoErr]
        /\ dec # NULL => dec.err = NoErr /\ SomeRootRecovers(dec, TestSecret)

\* the result of a finished call
Returned(t) == [kem |-> th[t].kem, err |-> th[t].err]

\* C6: two calls of Encrypt with the same public key and plaintext, one
\* after the other or interleaved, return the same Ps and Qs: what a call
\* returns is decided by the public key and the plaintext alone.
C6_Deterministic ==
    /\ \A t \in Callers, u \in Callers :
          (th[t].pc = "done" /\ th[u].pc = "done" /\ th[t].msg = th[u].msg)
             => Returned(t) = Returned(u)
    /\ \A t \in Callers :
          th[t].pc = "done" => Returned(t) = Encrypt(priv.PublicKey, th[t].msg)

\* both calls returned the same ciphertext of the same one-byte plaintext
C6_Witness ==
    /\ \A t \in Callers : th[t].pc = "done" /\ th[t].msg = <<1>>
    /\ th[1].kem # NULL /\ th[1].kem = th[2].kem

\* the Decrypt calls the client has made on a non-null ciphertext, made by
\* Encrypt or received: the ciphertext and the result
DecryptCalls ==
    (IF enc # NULL /\ enc.kem # NULL /\ dec # NULL
     THEN {[kem |-> enc.kem, dec |-> dec]} ELSE {})
    \cup
    (IF probe # NULL /\ probe.op = "Decrypt" /\ probe.kem \notin NullKems
     THEN {[kem |-> probe.kem, dec |-> probe.dec]} ELSE {})

\* a*x^2 + b*x + c modulo p, with a, b, c as the claim derives them from the
\* key and the ciphertext
QuadraticAt(key, kem, x) ==
    LET p == key.PublicKey.Prime
        polyP == (kem.Ps + key.S0 * key.A0) % p
        polyQ == (kem.Qs + key.S0 * key.B0) % p
        a == (polyQ + p - polyP) % p
        b == (((key.A1 * polyQ) % p) + p - ((key.B1 * polyP) % p)) % p
        c == (((key.A0 * polyQ) % p) + p - ((key.B0 * polyP) % p)) % p
    IN  (((a * x) % p) * x + b * x + c) % p

\* C11: both roots of every Decrypt call that returns no error, of any
\* ciphertext, are zeros of a*x^2 + b*x + c modulo p.
C11_QuadraticConsistency ==
    \A call \in DecryptCalls :
        call.dec.err = NoErr =>
            /\ call.dec.x1 \in 0..(priv.PublicKey.Prime - 1)
            /\ call.dec.x2 \in 0..(priv.PublicKey.Prime - 1)
            /\ QuadraticAt(priv, call.kem, call.dec.x1) = 0
            /\ QuadraticAt(priv, call.kem, call.dec.x2) = 0

\* Decrypt of a received ciphertext returned two different roots
C11_Witness ==
    /\ probe # NULL /\ probe.op = "Decrypt" /\ probe.kem \notin NullKems
    /\ probe.dec.err = NoErr
    /\ probe.dec.x1 # probe.dec.x2
    /\ QuadraticAt(priv, probe.kem, probe.dec.x1) = 0

\* C12 as claimed: of the two roots Decrypt returns for an honest ciphertext
\* exactly one is the encoded plaintext s, never both.
C12_ExactlyOneRoot ==
    (Honest /\ dec # NULL /\ dec.err = NoErr) =>
        (dec.x1 = Secret(enc.msg)) # (dec.x2 = Secret(enc.msg))

\* C12 as amended: at least one of the two roots is s; both are s exactly
\* when the discriminant is 0, where x1 = x2.
C12_OneRootOrDouble ==
    (Honest /\ dec # NULL /\ dec.err = NoErr) =>
        LET s == Secret(enc.msg)
            p == priv.PublicKey.Prime
        IN  /\ dec.x1 = s \/ dec.x2 = s
            /\ (dec.x1 = s /\ dec.x2 = s)
                  <=> (Discriminant(Quadratic(priv, enc.kem), p) = 0)
            /\ (dec.x1 = s /\ dec.x2 = s) <=> (dec.x1 = dec.x2)

\* the second root alone is the encoded plaintext of a one-byte message
C12_Witness ==
    /\ Honest /\ dec # NULL /\ dec.err = NoErr
    /\ Len(enc.msg) = 1
    /\ dec.x1 # Secret(enc.msg) /\ dec.x2 = Secret(enc.msg)

\* the DecryptMessage calls the client has made: what Decrypt returns for the
\* ciphertext, and what DecryptMessage returned
DecryptMessageCalls ==
    (IF enc # NULL /\ dm # NULL
     THEN {[dec |-> Decrypt(priv, enc.kem, sqrtPick), dm |-> dm]} ELSE {})
    \cup
    (IF probe # NULL /\ probe.op = "Decrypt"
     THEN {[dec |-> probe.dec, dm |-> probe.dm]} ELSE {})

\* C13: DecryptMessage returns Decrypt's error and no message when Decrypt
\* fails; otherwise the message of x1 when x1 passes the marker check,
\* whatever x2 is; the message of x2 only when x1 fails and x2 passes; and
\* errInvalidSecretFormat when both fail.
C13_DisambiguationOrder ==
    \A call \in DecryptMessageCalls :
        LET d == call.dec
            first == RecoverMessage(d.x1)
            second == RecoverMessage(d.x2)
        IN  /\ d.err # NoErr => call.dm = [msg |-> <<>>, err |-> d.err]
            /\ (d.err = NoErr /\ first.err = NoErr)
                  => call.dm = [msg |-> first.msg, err |-> NoErr]
            /\ (d.err = NoErr /\ first.err # NoErr /\ second.err = NoErr)
                  => call.dm = [msg |-> second.msg, err |-> NoErr]
            /\ (d.err = NoErr /\ first.err # NoErr /\ second.err # NoErr)
                  => call.dm = [msg |-> <<>>, err |-> errInvalidSecretFormat]
            /\ (call.dm.err = NoErr /\ call.dm.msg = second.msg
                  /\ second.msg # first.msg)
                  => first.err # NoErr

\* both roots carry the marker and decode to different messages, and the
\* message of x1 was returned
C13_Witness ==
    /\ Honest /\ dm # NULL /\ dec # NULL /\ dec.err = NoErr
    /\ RecoverMessage(dec.x1).err = NoErr
    /\ RecoverMessage(dec.x2).err = NoErr
    /\ RecoverMessage(dec.x1).msg # RecoverMessage(dec.x2).msg
    /\ dm = [msg |-> RecoverMessage(dec.x1).msg, err |-> NoErr]

\* the integer whose bytes are the marker
MarkerValue == SetBytes(secretMarker)

\* the numbers of bytes that may follow the marker in a candidate
TailLengths == 0..Len(Bytes(MaxCandidate))

\* C14: RecoverMessage succeeds exactly when the candidate is not nil and its
\* unpadded bytes are the marker followed by k bytes, for some k >= 0; it
\* then returns exactly those k bytes (none when the candidate is the marker
\* itself); otherwise, also for nil and for 0, it returns
\* errInvalidSecretFormat and no bytes.
C14_RecoverMessage ==
    (probe # NULL /\ probe.op = "RecoverMessage") =>
        LET x == probe.candidate
            res == probe.res
            tails == IF x = NilInt THEN {}
                     ELSE {k \in TailLengths : x \div (ByteBase ^ k) = MarkerValue}
        IN  /\ (res.err = NoErr) <=> (tails # {})
            /\ res.err = NoErr =>
                  /\ Len(res.msg) \in tails
                  /\ \A i \in 1..Len(res.msg) : res.msg[i] \in 0..(ByteBase - 1)
                  /\ SetBytes(res.msg) = x % (ByteBase ^ Len(res.msg))
            /\ res.err # NoErr
                  => res = [msg |-> <<>>, err |-> errInvalidSecretFormat]
            /\ x = MarkerValue => res = [msg |-> <<>>, err |-> NoErr]
            /\ x \in {NilInt, 0} => res.err = errInvalidSecretFormat

\* the marker followed by the two bytes 0, 2 was decoded, the zero kept
C14_Witness ==
    /\ probe # NULL /\ probe.op = "RecoverMessage"
    /\ probe.candidate = MarkerValue * ByteBase * ByteBase + 2
    /\ probe.res = [msg |-> <<0, 2>>, err |-> NoErr]

\* C15: key generation over a valid prime returns the order error and no
\* key for every order below 5, with nothing drawn, and never returns it for
\* an order of 5 or more.
C15_OrderTooSmall ==
    gen.pc # "idle" =>
        /\ gen.order < 5 =>
              /\ gen.pc = "done" /\ gen.err = ERR_MSG_ORDER
              /\ priv = NULL
              /\ <<gen.a0, gen.a1, gen.b0, gen.b1>>
                    = <<NilInt, NilInt, NilInt, NilInt>>
              /\ gen.Bn = <<>>
        /\ gen.order >= 5 => gen.err # ERR_MSG_ORDER

\* a negative order was refused
C15_Witness ==
    /\ gen.pc = "done" /\ gen.order < 0
    /\ gen.err = ERR_MSG_ORDER /\ priv = NULL

\* C16: GenerateKeyWithPrime with a literal that is no positive integer (the
\* parsed prime is absent, 0 or negative) returns errInvalidPrime and no key:
\* it neither goes on to the sampling nor panics.
C16_InvalidPrime ==
    (gen.pc # "idle" /\ gen.prime <= 0) =>
        /\ gen.pc = "done"
        /\ gen.err = errInvalidPrime
        /\ priv = NULL

\* the vectors differ in length, or an element of one of them is nil
IsMalformed(pub) ==
    \/ Len(pub.VectorU) # Len(pub.VectorV)
    \/ \E i \in 1..Len(pub.VectorU) : pub.VectorU[i] = NilInt
    \/ \E i \in 1..Len(pub.VectorV) : pub.VectorV[i] = NilInt

\* C17 as claimed: Encrypt under a public key whose vectors differ in length
\* or have a nil element returns the invalid-public-key error and no KEM.
C17_InvalidPublicKeyAlways ==
    (probe # NULL /\ probe.op = "Encrypt" /\ IsMalformed(probe.pub)) =>
        probe.res = [kem |-> NULL, err |-> ERR_MSG_VU_PUBLICKEY]

\* C17 as amended: under such a key Encrypt returns no KEM; the error is
\* the invalid-public-key error when the encoded integer is below the prime,
\* and the data-exceeds-field error, tested first, when it is not.
C17_InvalidPublicKey ==
    (probe # NULL /\ probe.op = "Encrypt" /\ IsMalformed(probe.pub)) =>
        probe.res =
            [kem |-> NULL,
             err |-> IF Secret(probe.msg) < probe.pub.Prime
                     THEN ERR_MSG_VU_PUBLICKEY ELSE ERR_MSG_DATA_EXCEEDED]

\* a key whose last element of VectorV alone is nil was refused
C17_Witness ==
    /\ probe # NULL /\ probe.op = "Encrypt"
    /\ Len(probe.pub.VectorU) = Len(probe.pub.VectorV)
    /\ probe.pub.VectorU = priv.PublicKey.VectorU
    /\ probe.pub.VectorV[Len(probe.pub.VectorV)] = NilInt
    /\ probe.res = [kem |-> NULL, err |-> ERR_MSG_VU_PUBLICKEY]

\* the KEM is nil, or Ps is, or Qs is
IsNullKem(kem) == kem = NULL \/ kem.Ps = NilInt \/ kem.Qs = NilInt

\* C18: Decrypt returns the null-ciphertext error and no roots, and
\* DecryptMessage that error and no message, when the KEM, Ps or Qs is nil;
\* also on a nil private key, no field of the key being read before.
C18_NullCiphertext ==
    /\ (probe # NULL /\ probe.op \in {"Decrypt", "DecryptNilKey"}
          /\ IsNullKem(probe.kem)) =>
          /\ probe.dec = [x1 |-> NilInt, x2 |-> NilInt,
                          err |-> ERR_MSG_NULL_ENCRYPT]
          /\ probe.dm = [msg |-> <<>>, err |-> ERR_MSG_NULL_ENCRYPT]
    /\ (enc # NULL /\ enc.kem = NULL) =>
          /\ dec # NULL => dec = [x1 |-> NilInt, x2 |-> NilInt,
                                  err |-> ERR_MSG_NULL_ENCRYPT]
          /\ dm # NULL => dm = [msg |-> <<>>, err |-> ERR_MSG_NULL_ENCRYPT]

\* a KEM whose Qs alone is nil was refused on a nil private key
C18_Witness ==
    /\ probe # NULL /\ probe.op = "DecryptNilKey"
    /\ probe.kem = [Ps |-> 0, Qs |-> NilInt]
    /\ probe.dec.err = ERR_MSG_NULL_ENCRYPT
    /\ probe.dm.err = ERR_MSG_NULL_ENCRYPT

\* polyP = Ps + S0*A0 and polyQ = Qs + S0*B0 modulo p
FullP(key, kem) == (kem.Ps + key.S0 * key.A0) % key.PublicKey.Prime
FullQ(key, kem) == (kem.Qs + key.S0 * key.B0) % key.PublicKey.Prime

\* C19: Decrypt of a non-null ciphertext returns errSingularQuadratic, and
\* no roots, exactly when Ps + S0*A0 = Qs + S0*B0 modulo p (a = 0); the
\* square-root step never returns its own error in that case.
C19_SingularQuadratic ==
    \A call \in DecryptCalls :
        LET singular == FullP(priv, call.kem) = FullQ(priv, call.kem)
        IN  /\ (call.dec.err = errSingularQuadratic) <=> singular
            /\ singular => call.dec = [x1 |-> NilInt, x2 |-> NilInt,
                                       err |-> errSingularQuadratic]

\* a received ciphertext with different Ps and Qs was found singular
C19_Witness ==
    /\ probe # NULL /\ probe.op = "Decrypt" /\ ~IsNullKem(probe.kem)
    /\ probe.kem.Ps # probe.kem.Qs
    /\ FullP(priv, probe.kem) = FullQ(priv, probe.kem)
    /\ probe.dec.err = errSingularQuadratic

\* the primes of the model, and the squares modulo each
ModelPrimes ==
    {SetString(lit).val : lit \in WidePrimeLiterals \cup {DefaultPrime}}
SquaresOf ==
    [p \in ModelPrimes |-> {(r * r) % p : r \in 0..(p \div 2)}]

\* D = b^2 - 4ac modulo p, with a, b, c as the claims derive them
ClaimedDiscriminant(key, kem) ==
    LET p == key.PublicKey.Prime
        polyP == FullP(key, kem)
        polyQ == FullQ(key, kem)
        a == (polyQ + p - polyP) % p
        b == (((key.A1 * polyQ) % p) + p - ((key.B1 * polyP) % p)) % p
        c == (((key.A0 * polyQ) % p) + p - ((key.B0 * polyP) % p)) % p
    IN  (((b * b) % p) + 4 * p - (4 * ((a * c) % p))) % p

\* C20: Decrypt of a non-null ciphertext returns errNoQuadraticResidue, and
\* no roots, exactly when D = b^2 - 4ac is the square of no residue modulo
\* p; D = 0 is a square and does not raise it.
C20_NoQuadraticResidue ==
    \A call \in DecryptCalls :
        LET D == ClaimedDiscriminant(priv, call.kem)
            nonResidue == D \notin SquaresOf[priv.PublicKey.Prime]
        IN  /\ (call.dec.err = errNoQuadraticResidue) <=> nonResidue
            /\ nonResidue => call.dec = [x1 |-> NilInt, x2 |-> NilInt,
                                         err |-> errNoQuadraticResidue]
            /\ D = 0 => call.dec.err # errNoQuadraticResidue

\* a received ciphertext with the discriminant 0 was decrypted to a double
\* root
C20_Witness ==
    /\ probe # NULL /\ probe.op = "Decrypt" /\ ~IsNullKem(probe.kem)
    /\ ClaimedDiscriminant(priv, probe.kem) = 0
    /\ probe.dec.err = NoErr /\ probe.dec.x1 = probe.dec.x2

\* s^2 + c1*s + c0 modulo p
MonicQuadraticAt(c0, c1, s, p) == (s * s + c1 * s + c0) % p

\* the secrets the loop of encrypt is run on directly: the ends of [0, p)
RawSecrets(p) == {0, 1, 2, p - 1}

\* Ps and Qs as the loop of encrypt leaves them for the secret s
LoopKem(pub, s) ==
    LET st == EncryptLoop([Ps |-> 0, Qs |-> 0, Si |-> s], 1,
                          Append(pub.VectorU, 1), Append(pub.VectorV, 1),
                          s, pub.Prime)
    IN  [Ps |-> st.Ps, Qs |-> st.Qs]

\* both full polynomials of the ciphertext kem are the products at s
ShiftedProducts(key, Bn, kem, s) ==
    LET p == key.PublicKey.Prime
    IN  /\ FullP(key, kem)
             = (PolyAt(Bn, s, p) * MonicQuadraticAt(key.A0, key.A1, s, p)) % p
        /\ FullQ(key, kem)
             = (PolyAt(Bn, s, p) * MonicQuadraticAt(key.B0, key.B1, s, p)) % p

\* C23: the published entry i being multiplied by s^(i+1), the ciphertext of
\* the secret s satisfies Ps + S0*A0 = Bn(s)*(s^2 + A1*s + A0) and
\* Qs + S0*B0 = Bn(s)*(s^2 + B1*s + B0) modulo p: for what Encrypt returned,
\* and for the loop run on the ends of [0, p).
C23_IndexShift ==
    /\ Honest => ShiftedProducts(priv, gen.Bn, enc.kem, Secret(enc.msg))
    /\ priv # NULL =>
          \A s \in RawSecrets(priv.PublicKey.Prime) :
             ShiftedProducts(priv, gen.Bn, LoopKem(priv.PublicKey, s), s)

\* a ciphertext of a two-byte plaintext whose base polynomial does not vanish
\* at the secret, and whose constant term S0*A0 is no multiple of p
C23_Witness ==
    /\ Honest /\ Len(enc.msg) = 2
    /\ PolyAt(gen.Bn, Secret(enc.msg), priv.PublicKey.Prime) # 0
    /\ (priv.S0 * priv.A0) % priv.PublicKey.Prime # 0
    /\ FullP(priv, enc.kem) # enc.kem.Ps

\* B[j] of the base polynomial Bn (B[0] first, B[n] = 1), 0 outside 0..n
BaseCoef(Bn, j) == IF j \in 0..(Len(Bn) - 1) THEN Bn[j + 1] ELSE 0

\* the coefficient of x^k in Bn(x)*(x^2 + c1*x + c0) modulo p
ProductCoef(Bn, c0, c1, k, p) ==
    (c0 * BaseCoef(Bn, k) + c1 * BaseCoef(Bn, k - 1) + BaseCoef(Bn, k - 2)) % p

\* C24: a generated key of order n publishes n+1 entries per vector, and for
\* every k in 1..n+1 VectorU[k-1] = A0*B[k] + A1*B[k-1] + B[k-2] modulo p and
\* VectorV[k-1] likewise with B0, B1 (B[j] = 0 outside 0..n, B[n] = 1): the
\* coefficients of x^1..x^(n+1), the constant and the leading one left out.
C24_Convolution ==
    priv # NULL =>
        LET pub == priv.PublicKey
            n == gen.order
        IN  /\ Len(gen.Bn) = n + 1 /\ gen.Bn[n + 1] = 1
            /\ Len(pub.VectorU) = n + 1 /\ Len(pub.VectorV) = n + 1
            /\ \A k \in 1..(n + 1) :
                  /\ pub.VectorU[k] =
                        ProductCoef(gen.Bn, priv.A0, priv.A1, k, pub.Prime)
                  /\ pub.VectorV[k] =
                        ProductCoef(gen.Bn, priv.B0, priv.B1, k, pub.Prime)

\* a key whose base polynomial has three different coefficients below the
\* leading one, and whose first quadratic has no zero coefficient
C24_Witness ==
    /\ priv # NULL
    /\ Cardinality({gen.Bn[j] : j \in 1..gen.order}) = 3
    /\ priv.A0 # 0 /\ priv.A1 # 0
    /\ priv.PublicKey.VectorU[gen.order] # priv.PublicKey.VectorV[gen.order]

\* x is a canonical residue modulo p
InField(x, p) == x \in 0..(p - 1)

\* C25: every integer the library produces is in [0, p): the private
\* coefficients and the published entries of a generated key, Ps and Qs of a
\* successful Encrypt (under the key's own public key, and under public keys
\* whose entries are outside [0, p)), and x1 and x2 of a successful Decrypt.
C25_CanonicalResidues ==
    /\ priv # NULL =>
          LET pub == priv.PublicKey
          IN  /\ \A x \in {priv.S0, priv.A0, priv.A1, priv.B0, priv.B1} :
                    InField(x, pub.Prime)
              /\ \A i \in 1..Len(pub.VectorU) : InField(pub.VectorU[i], pub.Prime)
              /\ \A i \in 1..Len(pub.VectorV) : InField(pub.VectorV[i], pub.Prime)
    /\ Honest =>
          /\ InField(enc.kem.Ps, priv.PublicKey.Prime)
          /\ InField(enc.kem.Qs, priv.PublicKey.Prime)
    /\ (probe # NULL /\ probe.op = "EncryptUnreduced"
           /\ probe.res.err = NoErr) =>
          /\ InField(probe.res.kem.Ps, probe.pub.Prime)
          /\ InField(probe.res.kem.Qs, probe.pub.Prime)
    /\ \A call \in DecryptCalls :
          call.dec.err = NoErr =>
             /\ InField(call.dec.x1, priv.PublicKey.Prime)
             /\ InField(call.dec.x2, priv.PublicKey.Prime)

\* Encrypt succeeded under a public key with a negative entry and entries
\* above the prime
C25_Witness ==
    /\ probe # NULL /\ probe.op = "EncryptUnreduced"
    /\ probe.res.err = NoErr
    /\ probe.pub.VectorV[1] < 0
    /\ \A i \in 1..Len(probe.pub.VectorU) : probe.pub.VectorU[i] >= probe.pub.Prime
    /\ probe.res.kem.Ps # 0 /\ probe.res.kem.Qs # 0

\* C26: key generation of an order of at least 5 over a prime the parser
\* accepts, once begun, eventually returns (the key or the error of the random
\* source) when the random source is fair.
C26_KeyGenerationReturns ==
    (gen.pc \in {"a0", "a1", "b0", "b1", "Bn"}) ~> (gen.pc = "done")

\* what key generation has drawn so far
Drawn(g) == <<g.a0, g.a1, g.b0, g.b1, g.Bn>>

\* C27: when a draw of key generation fails, generateKey returns the error of
\* the random source at that draw, with no key and nothing more drawn, and
\* nothing of key generation runs after it: the draw is not made again.
C27_RandomFailure ==
    [][/\ gen'.err = errRandom =>
             /\ gen'.pc = "done" /\ priv' = NULL
             /\ Drawn(gen') = Drawn(gen)
       /\ gen.err = errRandom => (gen' = gen /\ priv' = priv)]_vars

\* the random source failed in the middle of the base polynomial
C27_Witness ==
    /\ gen.err = errRandom /\ gen.pc = "done" /\ priv = NULL
    /\ gen.b1 # NilInt
    /\ Len(gen.Bn) \in 1..(gen.order - 1)

\* the secret at which the two quadratics of the key agree:
\* (B0 - A0) * (A1 - B1)^-1 modulo p
CommonPoint(key) ==
    LET p == key.PublicKey.Prime
    IN  ((key.B0 + p - key.A0) * ModInverse(key.A1 + p - key.B1, p)) % p

\* C28: Decrypt of the honest ciphertext of the encoded secret s never returns
\* errNoQuadraticResidue; it returns errSingularQuadratic exactly when s is a
\* root of the base polynomial or s = (B0 - A0)*(A1 - B1)^-1 modulo p, and
\* otherwise returns no error with s among x1 and x2.
C28_HonestFailureSet ==
    (Honest /\ dec # NULL) =>
        LET s == Secret(enc.msg)
            p == priv.PublicKey.Prime
            singular == PolyAt(gen.Bn, s, p) = 0 \/ s = CommonPoint(priv)
        IN  /\ dec.err # errNoQuadraticResidue
            /\ singular => dec.err = errSingularQuadratic
            /\ ~singular => (dec.err = NoErr /\ s \in {dec.x1, dec.x2})

\* the honest ciphertext of the secret at which the two quadratics agree, the
\* base polynomial not vanishing there
C28_Witness ==
    /\ Honest /\ dec # NULL
    /\ Secret(enc.msg) = CommonPoint(priv)
    /\ PolyAt(gen.Bn, Secret(enc.msg), priv.PublicKey.Prime) # 0
    /\ dec.err = errSingularQuadratic

\* C29: in a generated key of order n the last published entries are
\* VectorU[n] = A1 + B[n-1] and VectorV[n] = B1 + B[n-1] modulo p; their
\* difference is A1 - B1, which is never 0, so VectorU and VectorV differ.
C29_LastEntries ==
    priv # NULL =>
        LET pub == priv.PublicKey
            p == pub.Prime
            n == gen.order
            last == gen.Bn[n]
        IN  /\ pub.VectorU[n + 1] = (priv.A1 + last) % p
            /\ pub.VectorV[n + 1] = (priv.B1 + last) % p
            /\ (pub.VectorU[n + 1] + p - pub.VectorV[n + 1]) % p
                  = (priv.A1 + p - priv.B1) % p
            /\ (pub.VectorU[n + 1] + p - pub.VectorV[n + 1]) % p # 0
            /\ pub.VectorU # pub.VectorV

\* a key whose last entries wrap around the prime, and whose vectors agree in
\* their first entry
C29_Witness ==
    /\ priv # NULL
    /\ priv.A1 + gen.Bn[gen.order] >= priv.PublicKey.Prime
    /\ priv.PublicKey.VectorU[gen.order + 1] < priv.PublicKey.VectorV[gen.order + 1]
    /\ priv.PublicKey.VectorU[1] = priv.PublicKey.VectorV[1]

\* ByteBase^n
RECURSIVE ByteShift(_)
ByteShift(n) == IF n = 0 THEN 1 ELSE ByteBase * ByteShift(n - 1)

C21_Immutability ==
    [][/\ defaultPrime' = defaultPrime
       /\ priv # NULL => priv' = priv
       /\ enc # NULL => enc' = enc
       /\ dec # NULL => dec' = dec
       /\ dm # NULL => dm' = dm]_vars

\* a two-byte plaintext encrypted, then handed to Decrypt and to
\* DecryptMessage, which calls Decrypt on it once more
C21_Witness ==
    /\ Honest /\ dec # NULL /\ dm # NULL
    /\ Len(enc.msg) = 2
    /\ dec.err = NoErr /\ dec.x1 # dec.x2
    /\ dm = [msg |-> enc.msg, err |-> NoErr]

\* what the call of the goroutine t returns when nothing else runs
Alone(t) ==
    LET r == go.run[t]
    IN  CASE r.op = "Encrypt" -> Encrypt(priv.PublicKey, r.msg)
          [] r.op = "Decrypt" -> Decrypt(priv, enc.kem, sqrtPick)
          [] r.op = "DecryptMessage" -> DecryptMessage(priv, enc.kem, sqrtPick)
          [] r.op = "GenerateKey" ->
               [key |-> BuildKey(r.order, SetString(DefaultPrime).val,
                                 r.drawn[1], r.drawn[2], r.drawn[3],
                                 r.drawn[4], r.bn),
                err |-> NoErr]

\* C22: whatever the interleaving of the steps of the goroutines, a call that
\* has returned has returned what it returns alone: Encrypt, Decrypt and
\* DecryptMessage under the shared key pair and ciphertext, GenerateKey over
\* the shared default prime (the key of its own draws).
C22_ThreadIndependence ==
    \A t \in Callers : go.run[t].pc = "done" => go.run[t].res = Alone(t)

\* DecryptMessage returned the plaintext while the other goroutine encrypted
\* another message under the same key
C22_Witness ==
    /\ go.run[1].op = "DecryptMessage" /\ go.run[1].pc = "done"
    /\ go.run[1].res = [msg |-> enc.msg, err |-> NoErr]
    /\ go.run[2].op = "Encrypt" /\ go.run[2].pc = "done"
    /\ go.run[2].msg # enc.msg
    /\ go.run[2].res.err = NoErr

====
